---------------------------- MODULE Spec2Model ----------------------------
(***************************************************************************)
(* Model of the xz_ctrl host software: the script validator                *)
(* (src/src/validator.py), the loop expander and Z soft-limit gate         *)
(* (src/src/app.py), the serial transport with its sliding window          *)
(* (src/src/arduino_serial.py) and the port discovery with its handshake   *)
(* (src/src/arduino_comm.py).                                              *)
(***************************************************************************)
EXTENDS Integers, Sequences, FiniteSets, TLC

(***************************************************************************)
(* Python floats.  Every distance in a script is a decimal with at most    *)
(* one fractional digit, and float(), + and > work on IEEE-754 doubles.    *)
(* A double v is the pair <<t, e>> with v = t/10 + e * 2^-56 / 10: t is    *)
(* the decimal value in tenths and e the binary rounding error in units    *)
(* of 2^-56/10.  All doubles that arise (multiples of 2^-56 of magnitude   *)
(* below 2^14) have exactly one such pair with a small e.  float('nan')    *)
(* is the triple NaN: every sum with it is NaN and every comparison with   *)
(* it is false.                                                            *)
(***************************************************************************)
Pow2(n) == IF n <= 0 THEN 1 ELSE 2 ^ n

Abs(n) == IF n < 0 THEN -n ELSE n

\* floor(log2(t/10)) for a decimal of t >= 1 tenths.
RECURSIVE BinadeOfTenths(_)
BinadeOfTenths(t) ==
    IF t >= 20 THEN 1 + BinadeOfTenths(t \div 2)
    ELSE IF t >= 10 THEN 0 ELSE IF t >= 5 THEN -1
    ELSE IF t >= 3 THEN -2 ELSE IF t >= 2 THEN -3 ELSE -4

\* t/10 is a power of two: the value sits on a binade boundary (b is the
\* binade of t).
IsBinadeBoundary(t, b) == t = 5 \/ (b >= 0 /\ t = 10 * Pow2(b))

\* floor(log2 |v|) of the exact value <<t, e>> with t > 0 in binade b.
FExponentIn(t, e, b) == IF IsBinadeBoundary(t, b) /\ e < 0 THEN b - 1 ELSE b

FExponent(t, e) == FExponentIn(t, e, BinadeOfTenths(t))

\* 2^n mod 20 for n >= 2.
Pow2Mod20(n) == CASE n % 4 = 2 -> 4 [] n % 4 = 3 -> 8
                  [] n % 4 = 0 -> 16 [] OTHER -> 12

\* The rounding of <<t, e>> once the remainder rem below the next multiple
\* of the ulp D is known, and whether the multiple below is odd: to the
\* nearest, ties to even.  D and rem are in units of 2^-56/10.
FRoundTo(t, e, D, rem, odd) ==
    IF 2 * rem < D THEN <<t, e - rem>>
    ELSE IF 2 * rem > D THEN <<t, e + (D - rem)>>
    ELSE IF odd = 0 THEN <<t, e - rem>>
    ELSE <<t, e + (D - rem)>>

\* R2 is (v / ulp) mod 2, scaled by D.
FRoundMod(t, e, D, R2) == FRoundTo(t, e, D, R2 % D, R2 \div D)

\* G is one ulp in units of 2^-56, for the exponent E.
FRoundUlp(t, e, E, G) ==
    FRoundMod(t, e, 10 * G, (((t * Pow2Mod20(52 - E)) % 20) * G + e) % (20 * G))

FRoundExp(t, e, E) == FRoundUlp(t, e, E, Pow2(E + 4))

\* Round the exact value <<t, e>>, t > 0, to the nearest double, ties to even.
FRoundPos(t, e) == FRoundExp(t, e, FExponent(t, e))

Sgn(n) == IF n < 0 THEN -1 ELSE 1

Scaled(s, r) == <<s * r[1], s * r[2]>>

FRound(v) ==
    IF v[1] = 0 THEN v
    ELSE Scaled(Sgn(v[1]), FRoundPos(Sgn(v[1]) * v[1], Sgn(v[1]) * v[2]))

\* float("<t/10>"): the double nearest to the decimal literal.
FloatOfTenths(t) == FRound(<<t, 0>>)

\* float('nan').
NaN == <<0, 0, 1>>

\* a + b on doubles.
FAdd(a, b) ==
    IF Len(a) = 3 \/ Len(b) = 3 THEN NaN ELSE FRound(<<a[1] + b[1], a[2] + b[2]>>)

\* a > b on doubles.
FGt(a, b) ==
    /\ Len(a) = 2
    /\ Len(b) = 2
    /\ a[1] > b[1] \/ (a[1] = b[1] /\ a[2] > b[2])


(***************************************************************************)
(* Script text.  A script is a sequence of source lines; a line is the     *)
(* sequence of its whitespace-separated tokens (str.strip().split()), so   *)
(* a blank line is <<>>.  A token is a record:                             *)
(*   k = "w"  a word, w its text ("move", "Z", "foo", ...)                 *)
(*   k = "c"  a token that starts with '#'                                 *)
(*   k = "n"  a decimal literal: sign sg, integer part ip, fd fractional   *)
(*            digits of value fr ("1.5" is sg "", ip 1, fd 1, fr 5;        *)
(*            "+3" is sg "+", ip 3, fd 0, fr 0; "1.50" has fd 2, fr 50).   *)
(*   k = "f"  another spelling float() parses and int() does not, with no  *)
(*            '.' in it, w its text: "nan" and "1e-3".                     *)
(*   k = "d"  digit characters int() and float() do not parse, w the text: *)
(*            the superscript two U+00B2, for which isdigit() is true.     *)
(***************************************************************************)
W(word) == [k |-> "w", w |-> word, sg |-> "", ip |-> 0, fd |-> 0, fr |-> 0]

Hash == [k |-> "c", w |-> "#", sg |-> "", ip |-> 0, fd |-> 0, fr |-> 0]

Num(sign, int, nfrac, frac) ==
    [k |-> "n", w |-> "", sg |-> sign, ip |-> int, fd |-> nfrac, fr |-> frac]

\* str.lower() on the words the scripts use.
Lower(word) ==
    CASE word = "MOVE" -> "move" [] word = "Move" -> "move"
      [] word = "ZERO" -> "zero" [] word = "LOOP" -> "loop"
      [] word = "ENDLOOP" -> "endloop"
      [] word = "Z" -> "z" [] word = "X" -> "x"
      [] OTHER -> word

\* parts[i].lower() of a token; a literal has no letters.
TokLower(tok) == IF tok.k = "w" THEN Lower(tok.w) ELSE IF tok.k = "c" THEN "#" ELSE "0"

\* float(tok) does not raise ValueError.
IsFloat(tok) == tok.k \in {"n", "f"}

\* int(tok) does not raise ValueError: digits with an optional sign, no '.'.
IsInt(tok) == tok.k = "n" /\ tok.fd = 0

\* str.isdigit(): digits only, no sign, no '.'.
IsDigit(tok) == (tok.k = "n" /\ tok.fd = 0 /\ tok.sg = "") \/ tok.k = "d"

\* int(tok).
IntOf(tok) == IF tok.sg = "-" THEN -tok.ip ELSE tok.ip

\* The decimal value of a literal in tenths (literals with two fractional
\* digits end in 0).
TenthsOf(tok) ==
    LET m == tok.ip * 10 + (IF tok.fd = 2 THEN tok.fr \div 10 ELSE tok.fr)
    IN  IF tok.sg = "-" THEN -m ELSE m

\* float(tok) as a double, for a decimal literal and for "nan".
FloatOf(tok) == IF tok.k = "f" /\ tok.w = "nan" THEN NaN ELSE FloatOfTenths(TenthsOf(tok))

\* line.startswith('#') after strip().
IsComment(line) == Len(line) > 0 /\ line[1].k = "c"

\* "not line or line.startswith('#')".
IsSkipped(line) == line = <<>> \/ IsComment(line)

(***************************************************************************)
(* validator.py.  ValidationError(line_num, message); Optional results     *)
(* are sequences of length 0 (None) or 1.                                  *)
(***************************************************************************)
ValidationError(line_num, message) == [line_num |-> line_num, message |-> message]

None == <<>>

validate_move_command(parts, line_num) ==
    IF Len(parts) # 3
    THEN <<ValidationError(line_num, "move requires 2 parameters")>>
    ELSE IF TokLower(parts[2]) \notin {"x", "z"}
    THEN <<ValidationError(line_num, "Invalid axis")>>
    ELSE IF ~IsFloat(parts[3])
    THEN <<ValidationError(line_num, "Invalid distance")>>
    ELSE IF parts[3].fd > 1
    THEN <<ValidationError(line_num, "too many decimal places")>>
    ELSE None

\* "speed <= 0" is false for nan and for 1e-3.
validate_speed_command(parts, line_num) ==
    IF Len(parts) # 3
    THEN <<ValidationError(line_num, "speed requires 2 parameters")>>
    ELSE IF TokLower(parts[2]) \notin {"x", "z"}
    THEN <<ValidationError(line_num, "Invalid axis")>>
    ELSE IF ~IsFloat(parts[3])
    THEN <<ValidationError(line_num, "Invalid speed")>>
    ELSE IF parts[3].k = "n" /\ TenthsOf(parts[3]) <= 0
    THEN <<ValidationError(line_num, "Speed must be positive")>>
    ELSE None

validate_loop_command(parts, line_num) ==
    IF Len(parts) # 2
    THEN <<ValidationError(line_num, "loop requires 1 parameter")>>
    ELSE IF ~IsInt(parts[2])
    THEN <<ValidationError(line_num, "Invalid iterations")>>
    ELSE IF IntOf(parts[2]) <= 0
    THEN <<ValidationError(line_num, "Iterations must be positive")>>
    ELSE None

\* An endloop check that lets operands pass.
validate_endloop_lenient(parts, line_num) == None

validate_endloop_command(parts, line_num) ==
    IF Len(parts) # 1
    THEN <<ValidationError(line_num, "endloop takes no parameters")>>
    ELSE None

validate_pulse_command(parts, line_num) ==
    IF Len(parts) # 2
    THEN <<ValidationError(line_num, "pulse requires 1 parameter")>>
    ELSE IF ~IsInt(parts[2])
    THEN <<ValidationError(line_num, "Invalid milliseconds")>>
    ELSE IF IntOf(parts[2]) < 0
    THEN <<ValidationError(line_num, "Pulse time cannot be negative")>>
    ELSE IF IntOf(parts[2]) > 5000
    THEN <<ValidationError(line_num, "Pulse time too long")>>
    ELSE None

validate_wait_command(parts, line_num) ==
    IF Len(parts) # 2
    THEN <<ValidationError(line_num, "wait requires 1 parameter")>>
    ELSE IF ~IsInt(parts[2])
    THEN <<ValidationError(line_num, "Invalid milliseconds")>>
    ELSE IF IntOf(parts[2]) < 0
    THEN <<ValidationError(line_num, "Wait time cannot be negative")>>
    ELSE None

validate_zero_command(parts, line_num) ==
    IF Len(parts) # 2
    THEN <<ValidationError(line_num, "zero requires 1 parameter")>>
    ELSE IF TokLower(parts[2]) # "z"
    THEN <<ValidationError(line_num, "zero currently only supports axis 'z'")>>
    ELSE None

validate_line(line, line_num) ==
    IF IsSkipped(line) THEN None
    ELSE LET cmd == TokLower(line[1])
         IN  CASE cmd = "move"    -> validate_move_command(line, line_num)
               [] cmd = "speed"   -> validate_speed_command(line, line_num)
               [] cmd = "loop"    -> validate_loop_command(line, line_num)
               [] cmd = "endloop" -> validate_endloop_command(line, line_num)
               [] cmd = "wait"    -> validate_wait_command(line, line_num)
               [] cmd = "pulse"   -> validate_pulse_command(line, line_num)
               [] cmd = "zero"    -> validate_zero_command(line, line_num)
               [] OTHER -> <<ValidationError(line_num, "Unknown command")>>

\* A scan that closes the oldest open loop at an endloop, not the newest.
RECURSIVE LoopMatchOldestFirst(_, _, _, _)
LoopMatchOldestFirst(lines, i, loop_stack, errors) ==
    IF i > Len(lines) THEN <<loop_stack, errors>>
    ELSE IF IsSkipped(lines[i]) THEN LoopMatchOldestFirst(lines, i + 1, loop_stack, errors)
    ELSE IF TokLower(lines[i][1]) = "loop"
    THEN LoopMatchOldestFirst(lines, i + 1, Append(loop_stack, i), errors)
    ELSE IF TokLower(lines[i][1]) = "endloop"
    THEN IF loop_stack = <<>>
         THEN LoopMatchOldestFirst(lines, i + 1, loop_stack,
                Append(errors, ValidationError(i, "endloop without matching loop")))
         ELSE LoopMatchOldestFirst(lines, i + 1, Tail(loop_stack), errors)
    ELSE LoopMatchOldestFirst(lines, i + 1, loop_stack, errors)

\* The scan of validate_loop_matching from line i on, with the stack of
\* open loop lines and the errors found so far; then the unclosed loops.
RECURSIVE LoopMatchFrom(_, _, _, _)
LoopMatchFrom(lines, i, loop_stack, errors) ==
    IF i > Len(lines) THEN <<loop_stack, errors>>
    ELSE IF IsSkipped(lines[i]) THEN LoopMatchFrom(lines, i + 1, loop_stack, errors)
    ELSE LET cmd == TokLower(lines[i][1])
         IN  IF cmd = "loop"
             THEN LoopMatchFrom(lines, i + 1, Append(loop_stack, i), errors)
             ELSE IF cmd = "endloop"
             THEN IF loop_stack = <<>>
                  THEN LoopMatchFrom(lines, i + 1, loop_stack,
                         Append(errors, ValidationError(i, "endloop without matching loop")))
                  ELSE LoopMatchFrom(lines, i + 1, SubSeq(loop_stack, 1, Len(loop_stack) - 1), errors)
             ELSE LoopMatchFrom(lines, i + 1, loop_stack, errors)

validate_loop_matching(lines) ==
    LET r == LoopMatchFrom(lines, 1, <<>>, <<>>)
    IN  r[2] \o [j \in 1..Len(r[1]) |->
                   ValidationError(r[1][j], "loop without matching endloop")]

\* body * rep: a Python list repeated rep times (empty for rep = 0).
RECURSIVE Repeat(_, _)
Repeat(body, rep) == IF rep <= 0 THEN <<>> ELSE body \o Repeat(body, rep - 1)

\* The scan of the lines reaches "int(parts[1])", after the test "cmd ==
\* 'loop' and len(parts) == 2 and parts[1].isdigit()", with a count int()
\* does not parse: ValueError is raised, in validate_script and in
\* convert_to_arduino_commands alike.
IntRaises(lines) ==
    \E i \in 1..Len(lines) :
        /\ ~IsSkipped(lines[i])
        /\ TokLower(lines[i][1]) = "loop"
        /\ Len(lines[i]) = 2
        /\ IsDigit(lines[i][2])
        /\ ~IsInt(lines[i][2])

\* All but the last element (list.pop() on a non-empty list).
Front(s) == SubSeq(s, 1, Len(s) - 1)

\* The line loop of validate_script's second pass from line i on:
\* loop_bodies is the stack of (repeat, body), expanded the flat list of
\* (line_num, line) pairs.
RECURSIVE VExpandFrom(_, _, _, _)
VExpandFrom(lines, i, loop_bodies, expanded) ==
    IF i > Len(lines) THEN expanded
    ELSE IF IsSkipped(lines[i]) THEN VExpandFrom(lines, i + 1, loop_bodies, expanded)
    ELSE LET parts == lines[i]
             cmd   == TokLower(parts[1])
             n     == Len(loop_bodies)
         IN  IF cmd = "loop" /\ Len(parts) = 2 /\ IsDigit(parts[2])
             THEN VExpandFrom(lines, i + 1,
                    Append(loop_bodies, [rep |-> IntOf(parts[2]), body |-> <<>>]), expanded)
             ELSE IF cmd = "endloop"
             THEN IF n = 0 THEN VExpandFrom(lines, i + 1, loop_bodies, expanded)
                  ELSE LET body_rep == Repeat(loop_bodies[n].body, loop_bodies[n].rep)
                       IN  IF n > 1
                           THEN VExpandFrom(lines, i + 1,
                                  [Front(loop_bodies) EXCEPT ![n - 1].body = @ \o body_rep],
                                  expanded)
                           ELSE VExpandFrom(lines, i + 1, <<>>, expanded \o body_rep)
             ELSE IF n > 0
             THEN VExpandFrom(lines, i + 1,
                    [loop_bodies EXCEPT ![n].body = Append(@, <<i, parts>>)], expanded)
             ELSE VExpandFrom(lines, i + 1, loop_bodies, Append(expanded, <<i, parts>>))

\* A validator whose buffer is 3.
ValidatorBufferThree == <<30, 0>>

\* Z_BUFFER = 2 in validate_script (line 226).
V_Z_BUFFER == <<20, 0>>

\* The Z position walk of validate_script over expanded[j..], z_pos the
\* simulated position: a violating move is reported and not committed.
RECURSIVE VSoftLimitFrom(_, _, _, _)
VSoftLimitFrom(expanded, j, z_pos, errors) ==
    IF j > Len(expanded) THEN errors
    ELSE LET line_num == expanded[j][1]
             parts    == expanded[j][2]
             cmd      == TokLower(parts[1])
         IN  IF cmd = "zero" /\ Len(parts) = 2 /\ TokLower(parts[2]) = "z"
             THEN VSoftLimitFrom(expanded, j + 1, <<0, 0>>, errors)
             ELSE IF cmd = "move" /\ Len(parts) = 3 /\ TokLower(parts[2]) = "z"
             THEN IF ~IsFloat(parts[3])
                  THEN VSoftLimitFrom(expanded, j + 1, z_pos, errors)
                  ELSE LET new_z == FAdd(z_pos, FloatOf(parts[3]))
                       IN  IF FGt(new_z, V_Z_BUFFER)
                           THEN VSoftLimitFrom(expanded, j + 1, z_pos,
                                  Append(errors, ValidationError(line_num, "Z soft-limit violation")))
                           ELSE VSoftLimitFrom(expanded, j + 1, new_z, errors)
             ELSE VSoftLimitFrom(expanded, j + 1, z_pos, errors)

\* list.sort(key=line_num): a stable sort, here by insertion.
RECURSIVE SortErrors(_)
SortErrors(errors) ==
    IF errors = <<>> THEN <<>>
    ELSE LET sorted == SortErrors(Front(errors))
             last   == errors[Len(errors)]
             k      == Cardinality({j \in 1..Len(sorted) : sorted[j].line_num <= last.line_num})
         IN  SubSeq(sorted, 1, k) \o <<last>> \o SubSeq(sorted, k + 1, Len(sorted))

\* A first pass that stops at the first line in error.
RECURSIVE LineErrorsFailFast(_, _)
LineErrorsFailFast(lines, i) ==
    IF i > Len(lines) THEN <<>>
    ELSE IF validate_line(lines[i], i) # None THEN validate_line(lines[i], i)
    ELSE LineErrorsFailFast(lines, i + 1)

\* The per-line errors of lines[i..] in line order (first pass).
RECURSIVE LineErrorsFrom(_, _)
LineErrorsFrom(lines, i) ==
    IF i > Len(lines) THEN <<>>
    ELSE validate_line(lines[i], i) \o LineErrorsFrom(lines, i + 1)

validate_script(lines) ==
    LET first    == LineErrorsFrom(lines, 1)
        loop_err == validate_loop_matching(lines)
        expanded == VExpandFrom(lines, 1, <<>>, <<>>)
        soft     == VSoftLimitFrom(expanded, 1, <<0, 0>>, <<>>)
    IN  SortErrors(first \o loop_err \o soft)

(***************************************************************************)
(* app.py: loop expansion and the Z soft-limit gate.                       *)
(***************************************************************************)
\* A push_line that knows the move command only.
push_moves_only(target_list, line) ==
    IF IsSkipped(line) THEN target_list
    ELSE IF TokLower(line[1]) = "move" THEN Append(target_list, line)
    ELSE target_list

\* push_line: the stripped line is kept iff it is a primitive command.
push_line(target_list, line) ==
    IF IsSkipped(line) THEN target_list
    ELSE IF TokLower(line[1]) \in {"move", "speed", "wait", "pulse", "zero", "report"}
         THEN Append(target_list, line)
         ELSE target_list

RECURSIVE ConvertFrom(_, _, _, _)
ConvertFrom(lines, i, stack, out) ==
    IF i > Len(lines) THEN out
    ELSE IF IsSkipped(lines[i]) THEN ConvertFrom(lines, i + 1, stack, out)
    ELSE LET parts == lines[i]
             cmd   == TokLower(parts[1])
             n     == Len(stack)
         IN  IF cmd = "loop" /\ Len(parts) = 2 /\ IsDigit(parts[2])
             THEN ConvertFrom(lines, i + 1,
                    Append(stack, [count |-> IntOf(parts[2]), body |-> <<>>]), out)
             ELSE IF cmd = "endloop"
             THEN IF n = 0 THEN ConvertFrom(lines, i + 1, stack, out)
                  ELSE LET expanded == Repeat(stack[n].body, stack[n].count)
                       IN  IF n > 1
                           THEN ConvertFrom(lines, i + 1,
                                  [Front(stack) EXCEPT ![n - 1].body = @ \o expanded], out)
                           ELSE ConvertFrom(lines, i + 1, <<>>, out \o expanded)
             ELSE IF n > 0
             THEN ConvertFrom(lines, i + 1,
                    [stack EXCEPT ![n].body = push_line(@, parts)], out)
             ELSE ConvertFrom(lines, i + 1, stack, push_line(out, parts))

convert_to_arduino_commands(lines) == ConvertFrom(lines, 1, <<>>, <<>>)

\* Z_BUFFER = 2.0 in _check_z_soft_limit (line 369).
Z_BUFFER == <<20, 0>>

\* A zero z that leaves the simulated position where it is.
ZeroKeepsPosition(z) == z

\* "z = 0" at a zero z command: the baseline moves to the contact point.
ZeroReset(z) == <<0, 0>>

\* The command loop of _check_z_soft_limit from command idx on.  The result
\* is [ok, idx, to, will_zero, z, z_after_last_zero]: on rejection idx is the
\* 1-based number of the offending command and to the position it proposes.
RECURSIVE GateFrom(_, _, _, _, _)
GateFrom(cmds, idx, z, will_zero, z_after_last_zero) ==
    IF idx > Len(cmds)
    THEN [ok |-> TRUE, idx |-> 0, to |-> z, will_zero |-> will_zero,
          z |-> z, z_after_last_zero |-> z_after_last_zero]
    ELSE LET parts == cmds[idx]
         IN  IF parts = <<>> THEN GateFrom(cmds, idx + 1, z, will_zero, z_after_last_zero)
             ELSE IF TokLower(parts[1]) = "zero" /\ Len(parts) = 2 /\ TokLower(parts[2]) = "z"
             THEN GateFrom(cmds, idx + 1, ZeroReset(z), TRUE, <<0, 0>>)
             ELSE IF TokLower(parts[1]) = "move" /\ Len(parts) = 3 /\ TokLower(parts[2]) = "z"
             THEN IF ~IsFloat(parts[3])
                  THEN GateFrom(cmds, idx + 1, z, will_zero, z_after_last_zero)
                  ELSE LET dz == FloatOf(parts[3])
                       IN  IF FGt(FAdd(z, dz), Z_BUFFER)
                           THEN [ok |-> FALSE, idx |-> idx, to |-> FAdd(z, dz),
                                 will_zero |-> will_zero, z |-> z,
                                 z_after_last_zero |-> z_after_last_zero]
                           ELSE GateFrom(cmds, idx + 1, FAdd(z, dz), will_zero,
                                  IF will_zero THEN FAdd(z, dz) ELSE z_after_last_zero)
             ELSE GateFrom(cmds, idx + 1, z, will_zero, z_after_last_zero)

\* A gate that persists the position reached before the offending command.
GatePersistsOnRejection(cmds, zpos) ==
    LET r == GateFrom(cmds, 1, zpos, FALSE, <<0, 0>>)
    IN  [ok |-> r.ok, idx |-> r.idx, to |-> r.to,
         z_position |-> IF ~r.will_zero THEN r.z ELSE r.z_after_last_zero]

\* _check_z_soft_limit(cmds) with self.z_position = zpos: the returned ok,
\* the message's command number and position, and the new self.z_position.
check_z_soft_limit(cmds, zpos) ==
    LET r == GateFrom(cmds, 1, zpos, FALSE, <<0, 0>>)
    IN  [ok |-> r.ok, idx |-> r.idx, to |-> r.to,
         z_position |-> IF ~r.ok THEN zpos
                        ELSE IF ~r.will_zero THEN r.z ELSE r.z_after_last_zero]

(***************************************************************************)
(* State.                                                                  *)
(*   arduino_serial.py, ArduinoController:                                 *)
(*     is_connected, running, queued_reports, dequeued_reports are the     *)
(*     fields; ser is "None", "open" or "closed" (the handle self.ser      *)
(*     refers to); queue_lock is the holder of _queue_lock, on which       *)
(*     _queue_cond is built.                                               *)
(*     snd is the thread inside send_script, ctl the thread inside         *)
(*     connect / disconnect, rdr the _read_loop threads started so far     *)
(*     and read_thread the one self.read_thread refers to.                 *)
(*   The serial device: dev counts the command lines it received (recv),   *)
(*     echoed with "[queued]" (echoed), executed and reported with         *)
(*     "[dequeued]" (executed), the '!' bytes it received (stops), the      *)
(*     "[dequeued]" reports that never reached the host (lost) and its     *)
(*     free-form lines (other), all since it was last reset;               *)
(*     inbuf is the host's serial input buffer; link_ok is                 *)
(*     the state of the physical link; wire the command lines written by   *)
(*     the current or last send_script and snd.sent the number written by  *)
(*     all of them.                                                        *)
(*   sink is what the response callback received: the number of lines and  *)
(*     the last one.  est records the last emergency_stop call: its        *)
(*     result, who held the lock and whether the window was full.          *)
(*   app.py, App: z_position is the field; app records the last            *)
(*     send_to_arduino attempt.                                            *)
(*   fin, fout are the input and result of a function applied on its own.  *)
(*   arduino_comm.py, ArduinoClient: cli is the client inside               *)
(*     find_and_connect (its position, the candidates in the order tried,  *)
(*     the handle self.ser as the number of the open port or 0, the read   *)
(*     attempts made after the greeting, and the result returned); ports   *)
(*     is what list_ports.comports() returns, with what is attached to     *)
(*     each port.                                                          *)
(***************************************************************************)
VARIABLES is_connected, ser, running, read_thread, queued_reports,
          dequeued_reports, queue_lock, snd, ctl, rdr,
          dev, inbuf, link_ok, wire, sink, est,
          z_position, app, fin, fout, cli, ports

ctrl_vars == <<is_connected, ser, running, read_thread>>
count_vars == <<queued_reports, dequeued_reports>>
env_vars == <<dev, inbuf, link_ok>>
app_vars == <<z_position, app>>
fn_vars == <<fin, fout>>
cli_vars == <<cli, ports>>
rest_vars == <<z_position, app, fin, fout, cli, ports>>
vars == <<is_connected, ser, running, read_thread, queued_reports,
          dequeued_reports, queue_lock, snd, ctl, rdr,
          dev, inbuf, link_ok, wire, sink, est,
          z_position, app, fin, fout, cli, ports>>

\* window = 32 in send_script.
window == 32

\* "for _ in range(10)" in _handshake.
read_attempts == 10

\* Bounds of the model.
MaxReaders == 2     \* _read_loop threads ever started
MaxErrors == 1      \* "[ERROR]" lines the reader reports
MaxWrites == 34     \* command lines written by send_script
MaxInbuf == 1       \* lines waiting in the serial input buffer
MaxLag == 2         \* "[queued]" reports still on their way when the sender goes on
MaxLost == 1        \* "[dequeued]" reports lost on the way to the host
MaxExec == 2        \* commands the device executes, where that is bounded
MaxOther == 1       \* free-form lines of the device
MaxStops == 1       \* emergency_stop calls
MaxConnects == 2    \* connect calls
MaxRuns == 3        \* send_to_arduino attempts
MaxCmds == 3        \* commands of a sequence handed to the gate on its own
MaxLines == 5       \* lines of a text of loops and commands
MaxBadLines == 3    \* lines of a text of well-formed and malformed lines
MaxSaid == 4        \* lines of a device that talks on its own
MaxBacklog == 2     \* lines of such a device waiting in the input buffer
MaxPorts == 2       \* serial ports list_ports.comports() returns
MaxFinds == 1       \* find_and_connect calls

\* A filter that drops the empty lines only.
LinesWithComments(script_lines) == SelectSeq(script_lines, LAMBDA ln : ln # <<>>)

\* The lines send_script keeps: stripped, not empty, not a comment.
SendableLines(script_lines) == SelectSeq(script_lines, LAMBDA ln : ~IsSkipped(ln))

IdleSender == [pc |-> "idle", lines |-> <<>>, idx |-> 0, total |-> 0,
               outstanding |-> 0, sent |-> 0,
               result |-> [ok |-> TRUE, msg |-> "none", n |-> 0]]

\* The state after ArduinoController.__init__.
InitTransport ==
    /\ is_connected = FALSE
    /\ ser = "None"
    /\ running = FALSE
    /\ read_thread = 0
    /\ queued_reports = 0
    /\ dequeued_reports = 0
    /\ queue_lock = "free"
    /\ snd = IdleSender
    /\ ctl = [pc |-> "idle", connects |-> 0, ok |-> TRUE, msg |-> "none"]
    /\ rdr = [r \in 1..MaxReaders |-> [pc |-> "none", line |-> ""]]
    /\ dev = [recv |-> 0, echoed |-> 0, executed |-> 0, stops |-> 0,
              lost |-> 0, other |-> 0]
    /\ inbuf = <<>>
    /\ link_ok = TRUE
    /\ wire = <<>>
    /\ sink = [n |-> 0, last |-> "", errors |-> 0]
    /\ est = [calls |-> 0, ok |-> TRUE, msg |-> "none", lock |-> "free", full |-> FALSE]

(***************************************************************************)
(* send_script, one step per synchronisation point.                        *)
(***************************************************************************)
\* A write that never raises, whatever the state of the handle.
WriteAlwaysWorks == TRUE

\* ser.write / ser.flush succeed iff the handle is open and the link works.
WriteWorks == ser = "open" /\ link_ok

Return(ok, msg, n) ==
    [snd EXCEPT !.pc = "idle", !.outstanding = 0,
                !.result = [ok |-> ok, msg |-> msg, n |-> n]]

\* A send_script that starts without the connection test.
SendScriptCallUnchecked(script_lines) ==
    /\ snd.pc = "idle"
    /\ snd.sent + Len(SendableLines(script_lines)) <= MaxWrites
    /\ snd' = [snd EXCEPT !.pc = "loop",
                          !.lines = SendableLines(script_lines),
                          !.total = Len(SendableLines(script_lines)),
                          !.idx = 0]
    /\ wire' = <<>>
    /\ UNCHANGED <<rest_vars, ctrl_vars, count_vars, queue_lock, ctl, rdr, env_vars, sink, est>>

\* The call: the connection test and the filtering of the lines.
SendScriptCall(script_lines) ==
    /\ snd.pc = "idle"
    /\ snd.sent + Len(SendableLines(script_lines)) <= MaxWrites
    /\ IF ~is_connected
       THEN /\ snd' = Return(FALSE, "Not connected", 0)
            /\ UNCHANGED wire
       ELSE /\ snd' = [snd EXCEPT !.pc = "loop",
                                  !.lines = SendableLines(script_lines),
                                  !.total = Len(SendableLines(script_lines)),
                                  !.idx = 0]
            /\ wire' = <<>>
    /\ UNCHANGED <<rest_vars, ctrl_vars, count_vars, queue_lock, ctl, rdr, env_vars, sink, est>>

\* The "[queued]" reports on their way: commands the device has not reported
\* yet and reports the reader has not counted yet.
EchoLag ==
    (dev.recv - dev.echoed)
    + Cardinality({i \in 1..Len(inbuf) : inbuf[i] = "[queued]"})
    + Cardinality({r \in 1..MaxReaders : rdr[r].pc = "line" /\ rdr[r].line = "[queued]"})

\* "while idx < total: with self._queue_cond:" or the final return.  The
\* sender is at most MaxLag reports ahead of the reader.
SendLoop ==
    /\ snd.pc = "loop"
    /\ IF snd.idx < snd.total
       THEN /\ EchoLag < MaxLag
            /\ queue_lock = "free"
            /\ queue_lock' = "sender"
            /\ snd' = [snd EXCEPT !.pc = "locked"]
       ELSE /\ snd' = Return(TRUE, "Sent", snd.total)
            /\ UNCHANGED queue_lock
    /\ UNCHANGED <<rest_vars, ctrl_vars, count_vars, ctl, rdr, env_vars, wire, sink, est>>

\* The window test with the comparison turned round.
WindowTestInverted(outstanding) == outstanding > window

\* "outstanding < window" as send_script tests it.
WindowOpen(outstanding) == outstanding < window

\* outstanding = queued - dequeued, and the branch on it: go on to the write,
\* or wait(timeout=1.0), which releases the lock.
SendCheck ==
    /\ snd.pc = "locked"
    /\ LET outstanding == queued_reports - dequeued_reports
       IN  IF WindowOpen(outstanding)
           THEN /\ snd' = [snd EXCEPT !.pc = "send", !.outstanding = outstanding]
                /\ UNCHANGED queue_lock
           ELSE /\ snd' = [snd EXCEPT !.pc = "wait"]
                /\ queue_lock' = "free"
    /\ UNCHANGED <<rest_vars, ctrl_vars, count_vars, ctl, rdr, env_vars, wire, sink, est>>

\* send_command(lines[idx]); on success idx += 1 and wait(timeout=0.005);
\* on failure the with-block is left and the failure returned.
SendWrite ==
    /\ snd.pc = "send"
    /\ IF ~is_connected
       THEN /\ snd' = Return(FALSE, "Not connected", snd.idx)
            /\ UNCHANGED <<wire, dev>>
       ELSE IF ~WriteWorks
       THEN /\ snd' = Return(FALSE, "Send failed", snd.idx)
            /\ UNCHANGED <<wire, dev>>
       ELSE /\ wire' = Append(wire, snd.lines[snd.idx + 1])
            /\ dev' = [dev EXCEPT !.recv = @ + 1]
            /\ snd' = [snd EXCEPT !.pc = "wait", !.idx = @ + 1, !.sent = @ + 1,
                                  !.outstanding = 0]
    /\ queue_lock' = "free"
    /\ UNCHANGED <<rest_vars, ctrl_vars, count_vars, ctl, rdr, inbuf, link_ok, sink, est>>

\* Condition.wait(timeout) returns, after a notify_all or when the timeout
\* has elapsed, as soon as the lock can be taken again; the with-block then
\* releases it and the loop test follows.
SendWake ==
    /\ snd.pc = "wait"
    /\ queue_lock = "free"
    /\ snd' = [snd EXCEPT !.pc = "loop"]
    /\ UNCHANGED <<rest_vars, ctrl_vars, count_vars, queue_lock, ctl, rdr, env_vars, wire, sink, est>>

(***************************************************************************)
(* _read_loop, for the reader thread r.                                    *)
(***************************************************************************)
\* line.startswith('[queued]') / line.startswith('[dequeued]').
IsQueuedLine(line) == line = "[queued]"

\* A reader that looks for another prefix and so never sees a dequeue report.
IsDequeuedMistyped(line) == line = "[dequeue]"

IsDequeuedLine(line) == line = "[dequeued]"

\* One pass of the loop up to the readline: the loop test, in_waiting,
\* readline and strip.  An exception is reported through the callback if
\* running; an empty line is dropped.
ReadLoopPoll(r) ==
    /\ rdr[r].pc = "poll"
    /\ IF ~(running /\ is_connected)
       THEN /\ rdr' = [rdr EXCEPT ![r].pc = "dead"]
            /\ UNCHANGED <<inbuf, sink>>
       ELSE IF ser = "None"
       THEN FALSE
       ELSE IF ~WriteWorks
       THEN /\ sink.errors < MaxErrors
            /\ sink' = [n |-> sink.n + 1, last |-> "[ERROR]", errors |-> sink.errors + 1]
            /\ UNCHANGED <<rdr, inbuf>>
       ELSE /\ inbuf # <<>>
            /\ inbuf' = Tail(inbuf)
            /\ rdr' = IF Head(inbuf) # ""
                      THEN [rdr EXCEPT ![r].pc = "line", ![r].line = Head(inbuf)]
                      ELSE rdr
            /\ UNCHANGED sink
    /\ UNCHANGED <<rest_vars, ctrl_vars, count_vars, queue_lock, snd, ctl, dev, link_ok, wire, est>>

\* A reader that updates the counters without taking the lock.
ReaderCountsUnlocked(lock) == TRUE

\* The lock the reader needs before it touches a counter.
ReaderMayCount(lock) == lock = "free"

\* The rest of the pass: the counter update under the condition's lock with
\* notify_all, the callback, the sleep.
ReadLoopHandle(r) ==
    /\ rdr[r].pc = "line"
    /\ LET line == rdr[r].line
       IN  /\ IF IsQueuedLine(line)
              THEN /\ ReaderMayCount(queue_lock)
                   /\ queued_reports' = queued_reports + 1
                   /\ UNCHANGED dequeued_reports
              ELSE IF IsDequeuedLine(line)
              THEN /\ ReaderMayCount(queue_lock)
                   /\ dequeued_reports' = dequeued_reports + 1
                   /\ UNCHANGED queued_reports
              ELSE UNCHANGED count_vars
           /\ sink' = [sink EXCEPT !.n = @ + 1, !.last = line]
    /\ rdr' = [rdr EXCEPT ![r].pc = "poll", ![r].line = ""]
    /\ UNCHANGED <<rest_vars, ctrl_vars, queue_lock, snd, ctl, env_vars, wire, est>>

(***************************************************************************)
(* emergency_stop.                                                         *)
(***************************************************************************)
\* An emergency_stop that enters "with self._queue_cond" first.
StopWaitsForLock(lock) == lock = "free"

\* emergency_stop takes no lock: it goes on whoever holds _queue_lock.
StopMayProceed(lock) == TRUE

\* An emergency_stop that makes a send_script in progress return.
EmergencyStopAbortsSend ==
    /\ est.calls < MaxStops
    /\ is_connected
    /\ WriteWorks
    /\ dev' = [dev EXCEPT !.stops = @ + 1]
    /\ est' = [est EXCEPT !.calls = @ + 1, !.lock = queue_lock,
                          !.full = ~WindowOpen(queued_reports - dequeued_reports),
                          !.ok = TRUE, !.msg = "Emergency stop sent"]
    /\ snd' = IF snd.pc = "idle" THEN snd ELSE Return(FALSE, "Stopped", snd.idx)
    /\ queue_lock' = IF queue_lock = "sender" THEN "free" ELSE queue_lock
    /\ UNCHANGED <<rest_vars, ctrl_vars, count_vars, ctl, rdr, inbuf, link_ok, wire, sink>>

\* An emergency_stop that gives the session up when its write fails.
EmergencyStopDropsSession ==
    /\ est.calls < MaxStops
    /\ LET seen == [est EXCEPT !.calls = @ + 1, !.lock = queue_lock,
                               !.full = ~WindowOpen(queued_reports - dequeued_reports)]
       IN  IF ~is_connected
           THEN /\ est' = [seen EXCEPT !.ok = FALSE, !.msg = "Not connected"]
                /\ UNCHANGED <<dev, is_connected>>
           ELSE IF WriteWorks
           THEN /\ dev' = [dev EXCEPT !.stops = @ + 1]
                /\ est' = [seen EXCEPT !.ok = TRUE, !.msg = "Emergency stop sent"]
                /\ UNCHANGED is_connected
           ELSE /\ est' = [seen EXCEPT !.ok = FALSE, !.msg = "Stop failed"]
                /\ is_connected' = FALSE
                /\ UNCHANGED dev
    /\ UNCHANGED <<rest_vars, ser, running, read_thread, count_vars, queue_lock, snd, ctl, rdr,
                   inbuf, link_ok, wire, sink>>

EmergencyStop ==
    /\ est.calls < MaxStops
    /\ StopMayProceed(queue_lock)
    /\ LET seen == [est EXCEPT !.calls = @ + 1, !.lock = queue_lock,
                               !.full = ~WindowOpen(queued_reports - dequeued_reports)]
       IN  IF ~is_connected
           THEN /\ est' = [seen EXCEPT !.ok = FALSE, !.msg = "Not connected"]
                /\ UNCHANGED dev
           ELSE IF WriteWorks
           THEN /\ dev' = [dev EXCEPT !.stops = @ + 1]
                /\ est' = [seen EXCEPT !.ok = TRUE, !.msg = "Emergency stop sent"]
           ELSE /\ est' = [seen EXCEPT !.ok = FALSE, !.msg = "Stop failed"]
                /\ UNCHANGED dev
    /\ UNCHANGED <<rest_vars, ctrl_vars, count_vars, queue_lock, snd, ctl, rdr, inbuf, link_ok, wire, sink>>

(***************************************************************************)
(* connect and disconnect.                                                 *)
(***************************************************************************)
\* The device after a reset: opening the port resets the board (the
\* sleep(2) of connect waits for it), which empties its command queue.
ResetDevice == [recv |-> 0, echoed |-> 0, executed |-> 0, stops |-> 0,
                lost |-> 0, other |-> 0]

\* connect up to serial.Serial(...): "Already connected", or the open, which
\* raises when no device answers.
ConnectOpen ==
    /\ ctl.pc = "idle"
    /\ IF is_connected
       THEN /\ ctl' = [ctl EXCEPT !.ok = TRUE, !.msg = "Already connected"]
            /\ UNCHANGED <<ser, is_connected, dev>>
       ELSE IF ~link_ok
       THEN /\ ctl.connects < MaxConnects
            /\ ctl' = [ctl EXCEPT !.connects = @ + 1, !.ok = FALSE, !.msg = "Connection failed"]
            /\ is_connected' = FALSE
            /\ UNCHANGED <<ser, dev>>
       ELSE /\ ctl.connects < MaxConnects
            /\ ctl' = [ctl EXCEPT !.connects = @ + 1, !.pc = "c_opened"]
            /\ ser' = "open"
            /\ dev' = ResetDevice
            /\ UNCHANGED is_connected
    /\ UNCHANGED <<rest_vars, running, read_thread, count_vars, queue_lock, snd, rdr,
                   inbuf, link_ok, wire, sink, est>>

\* The connect that opens the first session.
FirstConnectOpen ==
    /\ ctl.connects = 0
    /\ ConnectOpen

\* The thread connect starts: the first one not started yet.
NewReader == CHOOSE r \in 1..MaxReaders :
                 /\ rdr[r].pc = "none"
                 /\ \A q \in 1..MaxReaders : rdr[q].pc = "none" => r <= q

\* connect after the sleep: flushInput, the flags, the reader thread.
ConnectFinish ==
    /\ ctl.pc = "c_opened"
    /\ IF ~link_ok
       THEN /\ ctl' = [ctl EXCEPT !.pc = "idle", !.ok = FALSE, !.msg = "Connection failed"]
            /\ is_connected' = FALSE
            /\ UNCHANGED <<running, read_thread, rdr, inbuf>>
       ELSE /\ \E r \in 1..MaxReaders : rdr[r].pc = "none"
            /\ inbuf' = <<>>
            /\ is_connected' = TRUE
            /\ running' = TRUE
            /\ read_thread' = NewReader
            /\ rdr' = [rdr EXCEPT ![NewReader].pc = "poll"]
            /\ ctl' = [ctl EXCEPT !.pc = "idle", !.ok = TRUE, !.msg = "Connected"]
    /\ UNCHANGED <<rest_vars, ser, count_vars, queue_lock, snd, dev, link_ok, wire, sink, est>>

\* disconnect: "if not self.is_connected: return", else running = False.
DisconnectBegin ==
    /\ ctl.pc = "idle"
    /\ is_connected
    /\ running' = FALSE
    /\ ctl' = [ctl EXCEPT !.pc = "d_join"]
    /\ UNCHANGED <<rest_vars, is_connected, ser, read_thread, count_vars, queue_lock, snd,
                   rdr, env_vars, wire, sink, est>>

\* read_thread.join(timeout=1) returns: the thread has ended, or the
\* timeout has elapsed.
DisconnectJoin ==
    /\ ctl.pc = "d_join"
    /\ ctl' = [ctl EXCEPT !.pc = "d_close"]
    /\ UNCHANGED <<rest_vars, ctrl_vars, count_vars, queue_lock, snd, rdr, env_vars, wire, sink, est>>

\* self.ser.close().
DisconnectClose ==
    /\ ctl.pc = "d_close"
    /\ ser' = IF ser = "None" THEN "None" ELSE "closed"
    /\ ctl' = [ctl EXCEPT !.pc = "d_clear"]
    /\ UNCHANGED <<rest_vars, is_connected, running, read_thread, count_vars, queue_lock,
                   snd, rdr, env_vars, wire, sink, est>>

\* A disconnect that drops the handle and leaves the flag set.
DisconnectForgetsFlag ==
    /\ ctl.pc = "d_clear"
    /\ ser' = "None"
    /\ ctl' = [ctl EXCEPT !.pc = "idle", !.ok = TRUE, !.msg = "Disconnected"]
    /\ UNCHANGED <<rest_vars, is_connected, running, read_thread, count_vars, queue_lock,
                   snd, rdr, env_vars, wire, sink, est>>

\* is_connected = False; ser = None.
DisconnectClear ==
    /\ ctl.pc = "d_clear"
    /\ is_connected' = FALSE
    /\ ser' = "None"
    /\ ctl' = [ctl EXCEPT !.pc = "idle", !.ok = TRUE, !.msg = "Disconnected"]
    /\ UNCHANGED <<rest_vars, running, read_thread, count_vars, queue_lock, snd, rdr, env_vars,
                   wire, sink, est>>

(***************************************************************************)
(* The device and the link.                                                *)
(***************************************************************************)
\* The host hears the device: the port is open and the link works.  While
\* it does not, nothing the device does can reach the host, and the next
\* open resets the device.
Deliverable == link_ok /\ ser = "open"

\* The device takes a received command into its queue and reports it.
DeviceQueues ==
    /\ Deliverable
    /\ dev.echoed < dev.recv
    /\ Len(inbuf) < MaxInbuf
    /\ inbuf' = Append(inbuf, "[queued]")
    /\ dev' = [dev EXCEPT !.echoed = @ + 1]
    /\ UNCHANGED <<rest_vars, ctrl_vars, count_vars, queue_lock, snd, ctl, rdr, link_ok, wire, sink, est>>

\* The device executes the oldest queued command and reports it.
DeviceDequeues ==
    /\ Deliverable
    /\ dev.executed < dev.echoed
    /\ Len(inbuf) < MaxInbuf
    /\ inbuf' = Append(inbuf, "[dequeued]")
    /\ dev' = [dev EXCEPT !.executed = @ + 1]
    /\ UNCHANGED <<rest_vars, ctrl_vars, count_vars, queue_lock, snd, ctl, rdr, link_ok, wire, sink, est>>

\* The device executes a command while the host sees a full window, and the
\* report is lost on the way to the host.
DequeuedLost ==
    /\ Deliverable
    /\ dev.executed < dev.echoed
    /\ dev.lost < MaxLost
    /\ ~WindowOpen(queued_reports - dequeued_reports)
    /\ dev' = [dev EXCEPT !.executed = @ + 1, !.lost = @ + 1]
    /\ UNCHANGED <<rest_vars, ctrl_vars, count_vars, queue_lock, snd, ctl, rdr, inbuf, link_ok, wire, sink, est>>

\* The same for a device that executes at most MaxExec commands.
DeviceDequeuesSome ==
    /\ dev.executed < MaxExec
    /\ DeviceDequeues

\* A free-form line, or an empty one.
DeviceTalks ==
    /\ Deliverable
    /\ dev.other < MaxOther
    /\ Len(inbuf) < MaxInbuf
    /\ \E line \in {"READY", ""} : inbuf' = Append(inbuf, line)
    /\ dev' = [dev EXCEPT !.other = @ + 1]
    /\ UNCHANGED <<rest_vars, ctrl_vars, count_vars, queue_lock, snd, ctl, rdr, link_ok, wire, sink, est>>

\* A device that sends the lines fin.said, one after the other, whatever
\* the host does, once the session is established.
DeviceSays ==
    /\ is_connected
    /\ Deliverable
    /\ dev.other < Len(fin.said)
    /\ Len(inbuf) < MaxBacklog
    /\ inbuf' = Append(inbuf, fin.said[dev.other + 1])
    /\ dev' = [dev EXCEPT !.other = @ + 1]
    /\ UNCHANGED <<rest_vars, ctrl_vars, count_vars, queue_lock, snd, ctl, rdr, link_ok, wire, sink, est>>

\* The cable is pulled: every later read and write on the handle raises.
LinkFails ==
    /\ link_ok
    /\ ser = "open"
    /\ link_ok' = FALSE
    /\ UNCHANGED <<rest_vars, ctrl_vars, count_vars, queue_lock, snd, ctl, rdr, dev, inbuf, wire, sink, est>>

(***************************************************************************)
(* App.send_to_arduino.  The handler runs validate_script, the expansion   *)
(* and the gate at once and then sits in send_script, whose steps are the  *)
(* actions above.                                                          *)
(***************************************************************************)
\* App.__init__: z_position = -50.0.
InitApp ==
    /\ z_position = FloatOfTenths(-500)
    /\ app = [runs |-> 0, text |-> <<>>, z_before |-> FloatOfTenths(-500),
              outcome |-> "none"]

\* A pipeline that goes on whatever the gate said.
GateSkipped(gate) == TRUE

\* The gate's verdict as send_to_arduino uses it ("if not ok_soft: return").
GateAccepts(gate) == gate.ok

send_to_arduino(text) ==
    /\ snd.pc = "idle"
    /\ app.runs < MaxRuns
    /\ LET errors == validate_script(text)
           cmds   == convert_to_arduino_commands(text)
           gate   == check_z_soft_limit(cmds, z_position)
           seen   == [runs |-> app.runs + 1, text |-> text, z_before |-> z_position,
                      outcome |-> "none"]
       IN  IF ~is_connected
           THEN /\ app' = [seen EXCEPT !.outcome = "Not connected"]
                /\ UNCHANGED <<z_position, snd, wire>>
           ELSE IF IntRaises(text)
           THEN /\ app' = [seen EXCEPT !.outcome = "ValueError"]
                /\ UNCHANGED <<z_position, snd, wire>>
           ELSE IF errors # <<>>
           THEN /\ app' = [seen EXCEPT !.outcome = "Validation failed"]
                /\ UNCHANGED <<z_position, snd, wire>>
           ELSE IF ~GateAccepts(gate)
           THEN /\ app' = [seen EXCEPT !.outcome = "Z soft-limit check failed"]
                /\ z_position' = gate.z_position
                /\ UNCHANGED <<snd, wire>>
           ELSE IF cmds = <<>>
           THEN /\ app' = [seen EXCEPT !.outcome = "Nothing to send"]
                /\ z_position' = gate.z_position
                /\ UNCHANGED <<snd, wire>>
           ELSE /\ app' = [seen EXCEPT !.outcome = "send_script"]
                /\ z_position' = gate.z_position
                /\ snd' = [snd EXCEPT !.pc = "loop",
                                      !.lines = SendableLines(cmds),
                                      !.total = Len(SendableLines(cmds)),
                                      !.idx = 0]
                /\ wire' = <<>>
    /\ UNCHANGED <<ctrl_vars, count_vars, queue_lock, ctl, rdr, env_vars, sink, est, fn_vars, cli_vars>>

(***************************************************************************)
(* arduino_comm.py: ArduinoClient.find_and_connect and _handshake.         *)
(* A port is [desc, opens, writes, pong_at, noisy]: how its description    *)
(* ranks, whether serial.Serial opens it, whether a write on it succeeds,  *)
(* which read after the greeting returns the "PONG" line (0: none), and    *)
(* whether the other reads return a line or time out.                      *)
(***************************************************************************)
\* ArduinoClient.__init__.
IdleClient == [pc |-> "idle", order |-> <<>>, i |-> 0, ser |-> 0, attempts |-> 0,
               pinged |-> FALSE, calls |-> 0, result |-> [ok |-> FALSE, port |-> 0]]

InitClient ==
    /\ cli = IdleClient
    /\ ports = <<>>

\* score(p) of find_and_connect.
Score(p) == CASE p.desc = "arduino" -> 0 [] p.desc = "usb" -> 1 [] OTHER -> 2

\* The numbers of the ports with score k, in the order listed.
PortsScoring(k) ==
    SelectSeq([n \in 1..Len(ports) |-> n], LAMBDA n : Score(ports[n]) = k)

\* The ports as listed, not sorted.
ports_as_listed == [n \in 1..Len(ports) |-> n]

\* sorted(ports, key=score): a stable sort.
ports_sorted == PortsScoring(0) \o PortsScoring(1) \o PortsScoring(2)

\* What the n-th _read_line after the greeting returns on port p: the
\* stripped line, "" for None.
ReadLineAfterPing(p, n) ==
    IF p.pong_at = n THEN "PONG" ELSE IF p.noisy THEN "READY" ELSE ""

\* "line and line.upper().startswith('PONG')".
IsPong(line) == line = "PONG"

\* The loop of find_and_connect goes to the next candidate, or returns
\* (False, None) after the last.
NextCandidate(c) ==
    IF c.i < Len(c.order)
    THEN [c EXCEPT !.pc = "open", !.i = @ + 1, !.attempts = 0, !.pinged = FALSE]
    ELSE [c EXCEPT !.pc = "idle", !.attempts = 0, !.pinged = FALSE,
                   !.result = [ok |-> FALSE, port |-> 0]]

\* find_and_connect is called: the ports are listed and sorted.
FindAndConnect ==
    /\ cli.pc = "idle"
    /\ cli.calls < MaxFinds
    /\ cli' = NextCandidate([cli EXCEPT !.calls = @ + 1, !.order = ports_sorted, !.i = 0])
    /\ UNCHANGED <<ports, ctrl_vars, count_vars, queue_lock, snd, ctl, rdr, env_vars,
                   wire, sink, est, app_vars, fn_vars>>

\* _open(p.device): the handle on success, else the next candidate.
ClientOpen ==
    /\ cli.pc = "open"
    /\ cli' = IF ports[cli.order[cli.i]].opens
              THEN [cli EXCEPT !.pc = "greet", !.ser = cli.order[cli.i]]
              ELSE NextCandidate([cli EXCEPT !.ser = 0])
    /\ UNCHANGED <<ports, ctrl_vars, count_vars, queue_lock, snd, ctl, rdr, env_vars,
                   wire, sink, est, app_vars, fn_vars>>

\* _handshake up to the greeting: the lines already there are read for
\* 0.6 s at most, then "PING" is written; a failed write ends the
\* handshake with False.
ClientGreet ==
    /\ cli.pc = "greet"
    /\ cli' = IF ports[cli.ser].writes
              THEN [cli EXCEPT !.pc = "listen", !.pinged = TRUE, !.attempts = 0]
              ELSE [cli EXCEPT !.pc = "close"]
    /\ UNCHANGED <<ports, ctrl_vars, count_vars, queue_lock, snd, ctl, rdr, env_vars,
                   wire, sink, est, app_vars, fn_vars>>

\* One pass of "for _ in range(10)": a read; a PONG line accepts the port
\* and find_and_connect returns (True, p.device); the last pass without
\* one ends the handshake with False.
ClientListen ==
    /\ cli.pc = "listen"
    /\ cli.attempts < read_attempts
    /\ cli' = IF IsPong(ReadLineAfterPing(ports[cli.ser], cli.attempts + 1))
              THEN [cli EXCEPT !.pc = "idle", !.attempts = @ + 1,
                               !.result = [ok |-> TRUE, port |-> cli.ser]]
              ELSE IF cli.attempts + 1 < read_attempts
              THEN [cli EXCEPT !.attempts = @ + 1]
              ELSE [cli EXCEPT !.pc = "close", !.attempts = @ + 1]
    /\ UNCHANGED <<ports, ctrl_vars, count_vars, queue_lock, snd, ctl, rdr, env_vars,
                   wire, sink, est, app_vars, fn_vars>>

\* "Not our device": close(), then the next candidate.
ClientClose ==
    /\ cli.pc = "close"
    /\ cli' = NextCandidate([cli EXCEPT !.ser = 0])
    /\ UNCHANGED <<ports, ctrl_vars, count_vars, queue_lock, snd, ctl, rdr, env_vars,
                   wire, sink, est, app_vars, fn_vars>>

(***************************************************************************)
(* A function applied on its own: fin is the argument, fout the result.    *)
(***************************************************************************)
NoInput == [z0t |-> 0, cmds |-> <<>>]

NoOutput == [done |-> FALSE, ok |-> TRUE, idx |-> 0, to |-> <<0, 0>>, z_position |-> <<0, 0>>]

\* _check_z_soft_limit(fin.cmds) with self.z_position = fin.z0t tenths.
ApplyGate ==
    /\ ~fout.done
    /\ LET gate == check_z_soft_limit(fin.cmds, FloatOfTenths(fin.z0t))
       IN  fout' = [done |-> TRUE, ok |-> gate.ok, idx |-> gate.idx, to |-> gate.to,
                    z_position |-> gate.z_position]
    /\ UNCHANGED <<fin, ctrl_vars, count_vars, queue_lock, snd, ctl, rdr, env_vars,
                   wire, sink, est, app_vars, cli_vars>>

\* The script functions applied to the editor text fin.text, each on its
\* own: fout holds what each returned.
NoResult == [validated |-> FALSE, errors |-> <<>>,
             matched |-> FALSE, loop_errors |-> <<>>,
             converted |-> 0, cmds |-> <<>>, again |-> <<>>, raised |-> {}]

\* errors = validate_script(text), or the exception it raises.
ApplyValidate ==
    /\ ~fout.validated
    /\ fout' = IF IntRaises(fin.text)
               THEN [fout EXCEPT !.validated = TRUE, !.raised = @ \cup {"validate_script"}]
               ELSE [fout EXCEPT !.validated = TRUE, !.errors = validate_script(fin.text)]
    /\ UNCHANGED <<fin, ctrl_vars, count_vars, queue_lock, snd, ctl, rdr, env_vars,
                   wire, sink, est, app_vars, cli_vars>>

\* loop_errors = validate_loop_matching(lines).
ApplyLoopMatching ==
    /\ ~fout.matched
    /\ fout' = [fout EXCEPT !.matched = TRUE,
                            !.loop_errors = validate_loop_matching(fin.text)]
    /\ UNCHANGED <<fin, ctrl_vars, count_vars, queue_lock, snd, ctl, rdr, env_vars,
                   wire, sink, est, app_vars, cli_vars>>

\* cmds = convert_to_arduino_commands(text.splitlines()), or the exception
\* it raises.
ApplyConvert ==
    /\ fout.converted = 0
    /\ fout' = IF IntRaises(fin.text)
               THEN [fout EXCEPT !.converted = 1,
                                 !.raised = @ \cup {"convert_to_arduino_commands"}]
               ELSE [fout EXCEPT !.converted = 1,
                                 !.cmds = convert_to_arduino_commands(fin.text)]
    /\ UNCHANGED <<fin, ctrl_vars, count_vars, queue_lock, snd, ctl, rdr, env_vars,
                   wire, sink, est, app_vars, cli_vars>>

\* convert_to_arduino_commands applied to its own result.
ApplyConvertAgain ==
    /\ fout.converted = 1
    /\ fout' = IF IntRaises(fout.cmds)
               THEN [fout EXCEPT !.converted = 2,
                                 !.raised = @ \cup {"convert_to_arduino_commands"}]
               ELSE [fout EXCEPT !.converted = 2,
                                 !.again = convert_to_arduino_commands(fout.cmds)]
    /\ UNCHANGED <<fin, ctrl_vars, count_vars, queue_lock, snd, ctl, rdr, env_vars,
                   wire, sink, est, app_vars, cli_vars>>

(***************************************************************************)
(* Inputs.                                                                 *)
(***************************************************************************)
\* The literal of a decimal of t tenths, with one fractional digit.
Dec(t) == Num(IF t < 0 THEN "-" ELSE "", Abs(t) \div 10, 1, Abs(t) % 10)

MoveZ(t) == <<W("move"), W("z"), Dec(t)>>
MoveX(t) == <<W("move"), W("x"), Dec(t)>>
ZeroZ == <<W("zero"), W("z")>>
Wait(ms) == <<W("wait"), Num("", ms, 0, 0)>>
Loop(n) == <<W("loop"), Num("", n, 0, 0)>>
EndLoop == <<W("endloop")>>
Comment == <<Hash, W("note")>>
Blank == <<>>

\* The scripts handed to send_script directly: one command, or one more
\* than the window holds, with a blank and a comment line among them.
LongScript == <<Blank, Comment>> \o Repeat(<<Wait(1)>>, window + 1)

\* One more command than the window holds, no two alike, with blank and
\* comment lines among them.
CountedScript ==
    <<Blank, Wait(1), Comment, Wait(2), Blank>> \o [k \in 1..(window - 1) |-> Wait(k + 2)]

TransportScripts == {<<MoveX(10)>>, LongScript}

\* The scripts of the editor handed to send_to_arduino.
AppZeroThenDown == <<ZeroZ, MoveZ(15)>>
AppMoveZeroMove == <<MoveZ(10), ZeroZ, MoveZ(5)>>
AppTwoMoves == <<MoveZ(10), MoveZ(10)>>
AppFarMove == <<MoveZ(100)>>
AppLoop == <<Comment, Loop(2), MoveX(10), EndLoop, Blank>>
AppBadLine == << <<W("jump"), W("z"), Dec(10)>> >>
AppNoCommand == <<Comment, Blank>>

AppScripts == {AppZeroThenDown, AppMoveZeroMove, AppTwoMoves, AppFarMove, AppLoop,
               AppBadLine, AppNoCommand,
               << <<W("move"), W("z"), [W("nan") EXCEPT !.k = "f"]>> >>}

\* The flat command sequences handed to the gate on its own, and the axis
\* states (in tenths) it starts from.
GateAlphabet == {MoveZ(10), MoveZ(15), MoveZ(5), MoveZ(1), MoveZ(100),
                 MoveZ(-29), MoveZ(22), MoveZ(27), ZeroZ, MoveX(30)}

GateScripts == UNION {[1..n -> GateAlphabet] : n \in 0..MaxCmds}

GateStarts == {-500, -10, 0, 5, 10, 15, 20}

\* The editor texts handed to the script functions on their own: every text
\* of up to MaxLines lines over the lines that decide the loop structure,
\* and every text of up to MaxBadLines lines over well-formed and malformed
\* lines of each command.
LoopPlus(n) == <<W("loop"), Num("+", n, 0, 0)>>

StructureLines == {Loop(2), Loop(3), LoopPlus(2), EndLoop, MoveX(10), Wait(1)}

SyntaxLines == {MoveZ(10), MoveZ(100), <<W("move"), W("z"), Num("", 3, 2, 50)>>,
                <<W("jump")>>, <<W("loop"), W("abc")>>, Loop(2), EndLoop,
                <<W("endloop"), Num("", 5, 0, 0)>>, <<W("wait"), Num("-", 1, 0, 0)>>,
                <<W("pulse"), Num("", 5001, 0, 0)>>, <<W("zero"), W("x")>>,
                <<W("speed"), W("x"), Dec(0)>>, Comment, Blank,
                ZeroZ, MoveZ(-10), MoveZ(15)}

\* The lines handed to the per-line rules one at a time: for every
\* command a line that keeps its rule and lines that break it at its
\* edges, among them literals only float() parses.  None of the latter is
\* a z move, so that no position is computed from them; and a loop count
\* of digit characters int() does not parse.
GrammarLines ==
    {Blank, Comment, <<W("jump")>>, <<W("report"), W("z")>>,
     MoveX(15), MoveZ(-10), <<W("MOVE"), W("X"), Num("", 7, 0, 0)>>,
     <<W("move"), W("x"), Num("", 3, 2, 50)>>, <<W("move"), W("y"), Dec(10)>>,
     <<W("move"), W("x")>>, <<W("move"), W("x"), W("abc")>>,
     <<W("move"), W("x"), [W("1e-3") EXCEPT !.k = "f"]>>,
     <<W("speed"), W("x"), Dec(5)>>, <<W("speed"), W("z"), Num("", 2, 0, 0)>>,
     <<W("speed"), W("x"), Dec(0)>>, <<W("speed"), W("x"), Dec(-10)>>,
     <<W("speed"), W("x"), [W("nan") EXCEPT !.k = "f"]>>,
     Wait(0), Wait(99999), <<W("wait"), Num("-", 1, 0, 0)>>, <<W("wait"), Dec(10)>>,
     <<W("wait")>>,
     <<W("pulse"), Num("", 0, 0, 0)>>, <<W("pulse"), Num("", 5000, 0, 0)>>,
     <<W("pulse"), Num("", 5001, 0, 0)>>, <<W("pulse"), Num("-", 1, 0, 0)>>,
     Loop(1), LoopPlus(2), Loop(0), <<W("loop"), W("abc")>>, <<W("loop")>>,
     <<W("loop"), [W("U+00B2") EXCEPT !.k = "d"]>>,
     <<W("loop"), Num("", 2, 0, 0), Num("", 3, 0, 0)>>,
     EndLoop, <<W("endloop"), Num("", 5, 0, 0)>>,
     ZeroZ, <<W("zero"), W("x")>>, <<W("zero")>>}

ScriptTexts ==
    UNION {[1..n -> StructureLines] : n \in 0..MaxLines}
    \cup UNION {[1..n -> SyntaxLines] : n \in 0..MaxBadLines}

\* What a device can send: the two accounting lines, a free-form line and
\* an empty line; and the script sent meanwhile.
DeviceLines == {"[queued]", "[dequeued]", "READY", ""}

DeviceTalk == [1..MaxSaid -> DeviceLines]

ShortScript == <<MoveX(10), Wait(1)>>

\* What can be attached to a serial port, and the port lists.
Port(desc, opens, writes, pong_at, noisy) ==
    [desc |-> desc, opens |-> opens, writes |-> writes, pong_at |-> pong_at,
     noisy |-> noisy]

PortKinds ==
    {Port(d, FALSE, FALSE, 0, FALSE) : d \in {"arduino", "usb", "other"}}
    \cup {Port(d, TRUE, FALSE, 0, FALSE) : d \in {"arduino", "usb", "other"}}
    \cup {Port(d, TRUE, TRUE, 0, n) : d \in {"arduino", "usb", "other"}, n \in BOOLEAN}
    \cup {Port(d, TRUE, TRUE, k, TRUE) : d \in {"arduino", "usb", "other"},
                                         k \in {1, read_attempts, read_attempts + 1}}

PortLists == UNION {[1..n -> PortKinds] : n \in 0..MaxPorts}

InitIdle ==
    /\ fin = NoInput
    /\ fout = NoOutput

Init == InitTransport /\ InitApp /\ InitIdle /\ InitClient

(***************************************************************************)
(* Spec: one connection, send_script under the window, emergency_stop.     *)
(***************************************************************************)
Next ==
    \/ ConnectOpen
    \/ ConnectFinish
    \/ \E script_lines \in TransportScripts : SendScriptCall(script_lines)
    \/ SendLoop
    \/ SendCheck
    \/ SendWrite
    \/ SendWake
    \/ \E r \in 1..MaxReaders : ReadLoopPoll(r)
    \/ \E r \in 1..MaxReaders : ReadLoopHandle(r)
    \/ DeviceQueues
    \/ DeviceDequeuesSome
    \/ EmergencyStop

Spec == Init /\ [][Next]_vars

(***************************************************************************)
(* SpecDisc: one session with one long send_script, disconnect and a       *)
(* failing link.                                                           *)
(***************************************************************************)
NextDisc ==
    \/ FirstConnectOpen
    \/ ConnectFinish
    \/ SendScriptCall(LongScript)
    \/ SendLoop
    \/ SendCheck
    \/ SendWrite
    \/ SendWake
    \/ \E r \in 1..MaxReaders : ReadLoopPoll(r)
    \/ \E r \in 1..MaxReaders : ReadLoopHandle(r)
    \/ DeviceQueues
    \/ DeviceDequeuesSome
    \/ DisconnectBegin
    \/ DisconnectJoin
    \/ DisconnectClose
    \/ DisconnectClear
    \/ LinkFails

SpecDisc == Init /\ [][NextDisc]_vars

(***************************************************************************)
(* SpecLive: one connection and one long send_script, with the scheduling  *)
(* the threads get: the sender, the reader and the device keep running.    *)
(***************************************************************************)
NextLive ==
    \/ FirstConnectOpen
    \/ ConnectFinish
    \/ SendScriptCall(LongScript)
    \/ SendLoop
    \/ SendCheck
    \/ SendWrite
    \/ SendWake
    \/ \E r \in 1..MaxReaders : ReadLoopPoll(r)
    \/ \E r \in 1..MaxReaders : ReadLoopHandle(r)
    \/ DeviceQueues
    \/ DeviceDequeues
    \/ DequeuedLost

Fairness ==
    /\ WF_vars(SendLoop)
    /\ WF_vars(SendCheck)
    /\ WF_vars(SendWrite)
    /\ WF_vars(SendWake)
    /\ \A r \in 1..MaxReaders : WF_vars(ReadLoopPoll(r))
    /\ \A r \in 1..MaxReaders : SF_vars(ReadLoopHandle(r))
    /\ WF_vars(DeviceQueues)
    /\ WF_vars(DeviceDequeues)

SpecLive == Init /\ [][NextLive]_vars /\ Fairness

(***************************************************************************)
(* SpecStop: one connection and one send_script of more commands than the  *)
(* window holds, with an emergency_stop at any moment the window is full,  *)
(* under the same scheduling.                                              *)
(***************************************************************************)
\* The emergency_stop calls of SpecStop: those made while commands wait
\* behind a full window.
StopBehindWindow ==
    /\ snd.pc # "idle"
    /\ ~WindowOpen(queued_reports - dequeued_reports)
    /\ EmergencyStop

NextStop ==
    \/ FirstConnectOpen
    \/ ConnectFinish
    \/ SendScriptCall(CountedScript)
    \/ SendLoop
    \/ SendCheck
    \/ SendWrite
    \/ SendWake
    \/ \E r \in 1..MaxReaders : ReadLoopPoll(r)
    \/ \E r \in 1..MaxReaders : ReadLoopHandle(r)
    \/ DeviceQueues
    \/ DeviceDequeues
    \/ StopBehindWindow

SpecStop == Init /\ [][NextStop]_vars /\ Fairness

(***************************************************************************)
(* SpecApp: the send pipeline of the editor over one connection.           *)
(***************************************************************************)
NextApp ==
    \/ FirstConnectOpen
    \/ ConnectFinish
    \/ \E text \in AppScripts : send_to_arduino(text)
    \/ SendLoop
    \/ SendCheck
    \/ SendWrite
    \/ SendWake
    \/ \E r \in 1..MaxReaders : ReadLoopPoll(r)
    \/ \E r \in 1..MaxReaders : ReadLoopHandle(r)
    \/ DeviceQueues
    \/ DeviceDequeues
    \/ DeviceTalks

SpecApp == Init /\ [][NextApp]_vars

(***************************************************************************)
(* SpecAppFail: the same pipeline over a link that can fail, so that a     *)
(* write of send_script raises.                                            *)
(***************************************************************************)
NextAppFail ==
    \/ FirstConnectOpen
    \/ ConnectFinish
    \/ \E text \in AppScripts : send_to_arduino(text)
    \/ SendLoop
    \/ SendCheck
    \/ SendWrite
    \/ SendWake
    \/ \E r \in 1..MaxReaders : ReadLoopPoll(r)
    \/ \E r \in 1..MaxReaders : ReadLoopHandle(r)
    \/ DeviceQueues
    \/ DeviceDequeues
    \/ LinkFails

SpecAppFail == Init /\ [][NextAppFail]_vars

(***************************************************************************)
(* SpecGate: _check_z_soft_limit applied to one command sequence from one  *)
(* axis state.                                                             *)
(***************************************************************************)
InitGate ==
    /\ InitTransport
    /\ InitApp
    /\ fin \in [z0t : GateStarts, cmds : GateScripts]
    /\ fout = NoOutput
    /\ InitClient

NextGate == ApplyGate

SpecGate == InitGate /\ [][NextGate]_vars

(***************************************************************************)
(* SpecScript: validate_script, validate_loop_matching and                 *)
(* convert_to_arduino_commands applied to one editor text.                 *)
(***************************************************************************)
InitScript ==
    /\ InitTransport
    /\ InitApp
    /\ fin \in [text : ScriptTexts]
    /\ fout = NoResult
    /\ InitClient

NextScript ==
    \/ ApplyValidate
    \/ ApplyLoopMatching
    \/ ApplyConvert
    \/ ApplyConvertAgain

SpecScript == InitScript /\ [][NextScript]_vars

(***************************************************************************)
(* SpecLine: the same functions applied to a text of one line, on line 1   *)
(* or behind a blank line on line 2.                                       *)
(***************************************************************************)
InitLine ==
    /\ InitTransport
    /\ InitApp
    /\ fin \in [text : {<<ln>> : ln \in GrammarLines} \cup {<<Blank, ln>> : ln \in GrammarLines}]
    /\ fout = NoResult
    /\ InitClient

SpecLine == InitLine /\ [][NextScript]_vars

(***************************************************************************)
(* SpecRead: the reader of one session against a device that sends a       *)
(* given sequence of lines, while send_script runs; the threads and the    *)
(* device keep running.                                                    *)
(***************************************************************************)
InitRead ==
    /\ InitTransport
    /\ InitApp
    /\ fin \in [said : DeviceTalk]
    /\ fout = NoOutput
    /\ InitClient

NextRead ==
    \/ FirstConnectOpen
    \/ ConnectFinish
    \/ SendScriptCall(ShortScript)
    \/ SendLoop
    \/ SendCheck
    \/ SendWrite
    \/ SendWake
    \/ \E r \in 1..MaxReaders : ReadLoopPoll(r)
    \/ \E r \in 1..MaxReaders : ReadLoopHandle(r)
    \/ DeviceSays

FairnessRead ==
    /\ WF_vars(SendCheck)
    /\ WF_vars(SendWrite)
    /\ \A r \in 1..MaxReaders : WF_vars(ReadLoopPoll(r))
    /\ \A r \in 1..MaxReaders : SF_vars(ReadLoopHandle(r))
    /\ WF_vars(DeviceSays)

SpecRead == InitRead /\ [][NextRead]_vars /\ FairnessRead

(***************************************************************************)
(* SpecDown: one session with a short send_script, an emergency_stop and   *)
(* a disconnect; the threads keep running and a disconnect, once called,   *)
(* goes through.                                                           *)
(***************************************************************************)
\* The send_script calls of SpecDown: the first one of the session, and
\* those made when the session is not connected.
SendScriptDown ==
    /\ snd.sent = 0 \/ ~is_connected
    /\ SendScriptCall(ShortScript)

NextDown ==
    \/ FirstConnectOpen
    \/ ConnectFinish
    \/ SendScriptDown
    \/ SendLoop
    \/ SendCheck
    \/ SendWrite
    \/ SendWake
    \/ \E r \in 1..MaxReaders : ReadLoopPoll(r)
    \/ \E r \in 1..MaxReaders : ReadLoopHandle(r)
    \/ DeviceQueues
    \/ DeviceDequeues
    \/ EmergencyStop
    \/ DisconnectBegin
    \/ DisconnectJoin
    \/ DisconnectClose
    \/ DisconnectClear

FairnessDown ==
    /\ WF_vars(SendCheck)
    /\ WF_vars(SendWrite)
    /\ \A r \in 1..MaxReaders : WF_vars(ReadLoopPoll(r))
    /\ \A r \in 1..MaxReaders : SF_vars(ReadLoopHandle(r))
    /\ WF_vars(DisconnectJoin)
    /\ WF_vars(DisconnectClose)
    /\ WF_vars(DisconnectClear)

SpecDown == Init /\ [][NextDown]_vars /\ FairnessDown

(***************************************************************************)
(* SpecReconnect: connect and disconnect calls one after the other, in     *)
(* any order, with a short send_script in the first session; the join of   *)
(* disconnect returns whether or not the reader has ended.                 *)
(***************************************************************************)
NextReconnect ==
    \/ ConnectOpen
    \/ ConnectFinish
    \/ DisconnectBegin
    \/ DisconnectJoin
    \/ DisconnectClose
    \/ DisconnectClear
    \/ SendScriptDown
    \/ SendLoop
    \/ SendCheck
    \/ SendWrite
    \/ SendWake
    \/ \E r \in 1..MaxReaders : ReadLoopPoll(r)
    \/ \E r \in 1..MaxReaders : ReadLoopHandle(r)
    \/ DeviceQueues
    \/ DeviceDequeues

SpecReconnect == Init /\ [][NextReconnect]_vars

(***************************************************************************)
(* SpecConn: the two ways a connection gets reported: find_and_connect     *)
(* of ArduinoClient over the listed ports, and connect of                  *)
(* ArduinoController.                                                      *)
(***************************************************************************)
InitConn ==
    /\ InitTransport
    /\ InitApp
    /\ InitIdle
    /\ cli = IdleClient
    /\ ports \in PortLists

NextConn ==
    \/ FindAndConnect
    \/ ClientOpen
    \/ ClientGreet
    \/ ClientListen
    \/ ClientClose
    \/ ConnectOpen
    \/ ConnectFinish

SpecConn == InitConn /\ [][NextConn]_vars

(***************************************************************************)
(* The properties.                                                         *)
(***************************************************************************)
\* C1: during a send_script the commands written to the device and not yet
\* executed and reported with "[dequeued]" never number more than the
\* window, 32.
C1_WrittenUnackedWithinWindow ==
    snd.pc # "idle" => dev.recv - dev.executed <= window

\* C2: against a device that never reports a dequeue, send_script writes at
\* most window commands: the (window+1)-th is not written before a
\* "[dequeued]" has come.
C2_NoWriteBeyondWindowWithoutDequeue ==
    (snd.pc # "idle" /\ dev.executed = 0 /\ dequeued_reports = 0) => snd.idx <= window

\* C3: a send_to_arduino attempt enters send_script only with a script that
\* validate_script found free of errors and whose expansion the gate
\* accepted, and hands it exactly that expansion; an attempt that fails
\* either check leaves the transport untouched; and the device receives a
\* command line only from a send_script started by such an attempt.
C3_SendOnlyAfterBothChecks ==
    [][/\ app'.runs = app.runs + 1 =>
            LET cmds   == convert_to_arduino_commands(app'.text)
                passed == /\ validate_script(app'.text) = <<>>
                          /\ check_z_soft_limit(cmds, app'.z_before).ok
            IN  /\ snd'.pc # "idle" => passed /\ snd'.lines = cmds
                /\ ~passed => snd' = snd /\ wire' = wire /\ dev' = dev
       /\ dev'.recv > dev.recv =>
            /\ snd.pc = "send"
            /\ app.outcome = "send_script"
            /\ validate_script(app.text) = <<>>
            /\ check_z_soft_limit(convert_to_arduino_commands(app.text), app.z_before).ok
      ]_vars

\* An attempt with a script that passes validation and is stopped by the
\* gate: nothing was started.
C3_Witness ==
    /\ app.outcome = "Z soft-limit check failed"
    /\ validate_script(app.text) = <<>>
    /\ snd.pc = "idle"
    /\ dev.recv > 0

\* The commands the gate looks at.
IsZeroZ(parts) == parts = ZeroZ

IsMoveZ(parts) == Len(parts) = 3 /\ parts[1] = W("move") /\ parts[2] = W("z")

\* The replay of a command sequence in decimal arithmetic, in tenths: zero z
\* sets z to 0, move z d proposes z + d, and the first proposal over 2.0
\* ends it.
RECURSIVE DecimalReplay(_, _, _)
DecimalReplay(cmds, idx, zt) ==
    IF idx > Len(cmds) THEN [ok |-> TRUE, idx |-> 0, zt |-> zt]
    ELSE IF IsZeroZ(cmds[idx]) THEN DecimalReplay(cmds, idx + 1, 0)
    ELSE IF IsMoveZ(cmds[idx])
    THEN IF zt + TenthsOf(cmds[idx][3]) > 20
         THEN [ok |-> FALSE, idx |-> idx, zt |-> zt]
         ELSE DecimalReplay(cmds, idx + 1, zt + TenthsOf(cmds[idx][3]))
    ELSE DecimalReplay(cmds, idx + 1, zt)

\* C4: the gate rejects iff some proposed position of the replay is greater
\* than 2.0 (exactly 2.0 is accepted), and on rejection reports the 1-based
\* number of the first such command.
C4_RejectsIffProposedOverLimit ==
    fout.done =>
        LET d == DecimalReplay(fin.cmds, 1, fin.z0t)
        IN  fout.ok = d.ok /\ fout.idx = d.idx

\* The script [move z 1.0, zero z, move z 0.5].
MoveZeroMove == <<MoveZ(10), ZeroZ, MoveZ(5)>>

\* C5: [move z 1.0, zero z, move z 0.5] is accepted from every starting
\* state, and the persisted state is then 0.5.
C5_AcceptedFromEveryStart ==
    (fout.done /\ fin.cmds = MoveZeroMove) =>
        fout.ok /\ fout.z_position = FloatOfTenths(5)

\* C5, as the gate has it: [move z 1.0, zero z, move z 0.5] is accepted
\* exactly from the starting states z0 with z0 + 1.0 <= 2.0, and the
\* persisted state is then 0.5, not 1.5 and not z0 + 1.5; from a higher
\* start it is rejected at command 1 and the persisted state stays z0.
C5_AcceptedFromStartsUpToOne ==
    (fout.done /\ fin.cmds = MoveZeroMove) =>
        IF ~FGt(FAdd(FloatOfTenths(fin.z0t), FloatOfTenths(10)), Z_BUFFER)
        THEN fout.ok /\ fout.z_position = FloatOfTenths(5)
        ELSE ~fout.ok /\ fout.idx = 1 /\ fout.z_position = FloatOfTenths(fin.z0t)

\* The script accepted from the initial state -50.0.
C5_Witness ==
    /\ fout.done
    /\ fin.cmds = MoveZeroMove
    /\ fin.z0t = -500
    /\ fout.ok
    /\ fout.z_position = FloatOfTenths(5)

\* The number of the last zero z of a sequence, 0 if there is none.
LastZeroZ(cmds) ==
    LET zeros == {i \in 1..Len(cmds) : IsZeroZ(cmds[i])}
    IN  IF zeros = {} THEN 0 ELSE CHOOSE i \in zeros : \A j \in zeros : j <= i

\* The sum, in tenths, of the z moves from command i on.
RECURSIVE SumOfZMoves(_, _)
SumOfZMoves(cmds, i) ==
    IF i > Len(cmds) THEN 0
    ELSE (IF IsMoveZ(cmds[i]) THEN TenthsOf(cmds[i][3]) ELSE 0) + SumOfZMoves(cmds, i + 1)

\* C6: after an accepted run, the persisted state is the starting state plus
\* the sum of all z moves if the sequence has no zero z, and the sum of the
\* z moves after the last zero z if it has one.
C6_PersistedIsSumOfMoves ==
    (fout.done /\ fout.ok) =>
        fout.z_position =
            FloatOfTenths(IF LastZeroZ(fin.cmds) = 0
                          THEN fin.z0t + SumOfZMoves(fin.cmds, 1)
                          ELSE SumOfZMoves(fin.cmds, LastZeroZ(fin.cmds) + 1))

\* C7: an emergency_stop call can always be made and completes, whoever
\* holds the lock and whatever the window holds; on a connected session it
\* writes '!' once, returns success and leaves the lock, the counters and
\* the sender as they are.
C7_StopWritesOnceWhateverTheWindow ==
    /\ [](est.calls < MaxStops => ENABLED EmergencyStop)
    /\ [][(est'.calls = est.calls + 1 /\ is_connected) =>
            /\ dev'.stops = dev.stops + 1
            /\ est'.ok /\ est'.msg = "Emergency stop sent"
            /\ UNCHANGED <<queue_lock, queued_reports, dequeued_reports, snd, wire>>
         ]_vars

\* A successful emergency_stop made while the sender held the lock and the
\* window was full.
C7_Witness ==
    /\ est.calls = 1
    /\ est.ok
    /\ est.full
    /\ est.lock = "sender"
    /\ dev.stops = 1

\* The call has returned (True, "Sent N commands") with the N lines written.
ReturnedSentAll ==
    /\ snd.pc = "idle"
    /\ snd.result = [ok |-> TRUE, msg |-> "Sent", n |-> Len(SendableLines(LongScript))]
    /\ Len(wire) = Len(SendableLines(LongScript))

\* C8: when a "[dequeued]" report has been lost while the window is full,
\* send_script still gets on: it writes the remaining commands and returns.
C8_LostDequeueDoesNotStall ==
    (snd.pc # "idle" /\ dev.lost > 0 /\ ~WindowOpen(queued_reports - dequeued_reports))
        ~> (ReturnedSentAll /\ dev.lost > 0)

\* The sender waiting on a full window after a report was lost.
C8_Witness ==
    /\ snd.pc = "wait"
    /\ dev.lost > 0
    /\ ~WindowOpen(queued_reports - dequeued_reports)
    /\ snd.idx = window

\* C9: once the session is disconnected, a sender that was waiting on a full
\* window does not go back to waiting: it returns.
C9_DisconnectedSenderStopsWaiting ==
    [][(~is_connected /\ snd.pc = "locked") => snd'.pc # "wait"]_vars

\* C10: with no failing write and a device that reports a dequeue for every
\* command it queued, a send_script of N sendable lines returns
\* (True, "Sent N commands") with exactly N lines written.
C10_SendReturnsSentN ==
    (snd.pc # "idle") ~> ReturnedSentAll

\* The long script sent, all of it.
C10_Witness ==
    /\ ReturnedSentAll
    /\ snd.idx = window + 1
    /\ queued_reports = window + 1

\* C11: when the write of a command fails during send_script, the call
\* returns that failure at once: the commands written before stay written,
\* nothing more is written, and is_connected, the handle and the reader are
\* left as they were.
C11_FailedWriteReturnsAtOnce ==
    /\ [](snd.pc = "idle" /\ snd.result.msg = "Send failed" =>
            /\ ~snd.result.ok
            /\ snd.result.n = snd.idx
            /\ snd.idx < snd.total
            /\ wire = SubSeq(snd.lines, 1, snd.idx))
    /\ [][(snd.pc = "send" /\ snd' # snd /\ is_connected /\ ~(ser = "open" /\ link_ok)) =>
            /\ snd'.pc = "idle"
            /\ snd'.result = [ok |-> FALSE, msg |-> "Send failed", n |-> snd.idx]
            /\ wire' = wire
            /\ dev'.recv = dev.recv
            /\ queue_lock' = "free"
            /\ UNCHANGED <<is_connected, ser, running, read_thread, rdr>>
         ]_vars

\* The write of a later command has failed on a session that is still
\* connected, with its reader alive.
C11_Witness ==
    /\ snd.pc = "idle"
    /\ snd.result.msg = "Send failed"
    /\ snd.idx >= 2
    /\ Len(wire) = snd.idx
    /\ is_connected
    /\ ser = "open"
    /\ ~link_ok
    /\ rdr[read_thread].pc = "poll"

\* The per-line grammar of a script: blank and comment lines, and the
\* well-formed commands.
FirstWord(line) == IF line[1].k = "w" THEN Lower(line[1].w) ELSE ""

IsAxis(tok) == tok.k = "w" /\ Lower(tok.w) \in {"x", "z"}

IsInteger(tok) == tok.k = "n" /\ tok.fd = 0

Magnitude(tok) == tok.ip * 100 + tok.fr

IsNegative(tok) == tok.sg = "-" /\ Magnitude(tok) > 0

WellFormed(line) ==
    \/ line = <<>>
    \/ line[1].k = "c"
    \/ /\ FirstWord(line) = "move" /\ Len(line) = 3 /\ IsAxis(line[2])
       /\ line[3].k = "n" /\ line[3].fd <= 1
    \/ /\ FirstWord(line) = "speed" /\ Len(line) = 3 /\ IsAxis(line[2])
       /\ line[3].k = "n" /\ line[3].sg # "-" /\ Magnitude(line[3]) > 0
    \/ /\ FirstWord(line) = "wait" /\ Len(line) = 2
       /\ IsInteger(line[2]) /\ ~IsNegative(line[2])
    \/ /\ FirstWord(line) = "pulse" /\ Len(line) = 2
       /\ IsInteger(line[2]) /\ ~IsNegative(line[2]) /\ line[2].ip <= 5000
    \/ /\ FirstWord(line) = "loop" /\ Len(line) = 2
       /\ IsInteger(line[2]) /\ line[2].sg # "-" /\ line[2].ip > 0
    \/ FirstWord(line) = "endloop" /\ Len(line) = 1
    \/ /\ FirstWord(line) = "zero" /\ Len(line) = 2
       /\ line[2].k = "w" /\ Lower(line[2].w) = "z"

\* The loop structure of a text: its loop and endloop lines.
IsLoopLine(line) == line # <<>> /\ FirstWord(line) = "loop"

IsEndLoopLine(line) == line # <<>> /\ FirstWord(line) = "endloop"

\* loop lines minus endloop lines among lines[i..j].
RECURSIVE OpenedIn(_, _, _)
OpenedIn(lines, i, j) ==
    IF j < i THEN 0
    ELSE OpenedIn(lines, i, j - 1)
         + (IF IsLoopLine(lines[j]) THEN 1 ELSE IF IsEndLoopLine(lines[j]) THEN -1 ELSE 0)

\* loop and endloop nest and balance.
Balanced(lines) ==
    /\ \A j \in 1..Len(lines) : OpenedIn(lines, 1, j) >= 0
    /\ OpenedIn(lines, 1, Len(lines)) = 0

\* C12: validate_script returns the empty list exactly when every line is
\* well-formed and loop/endloop balance; the size of the z moves of such a
\* text never produces an error.
C12_EmptyIffWellFormedAndBalanced ==
    fout.validated =>
        (fout.errors = <<>> <=>
            /\ \A i \in 1..Len(fin.text) : WellFormed(fin.text[i])
            /\ Balanced(fin.text))

\* The entries of an error list on line i whose message is among msgs.
EntriesAt(errors, i, msgs) ==
    {j \in 1..Len(errors) : errors[j].line_num = i /\ errors[j].message \in msgs}

StructuralMessages == {"endloop without matching loop", "loop without matching endloop"}

SoftLimitMessages == {"Z soft-limit violation"}

AllMessages(errors) == {errors[j].message : j \in 1..Len(errors)}

IsUnmatchedEndLoop(lines, i) ==
    /\ IsEndLoopLine(lines[i])
    /\ \A k \in 1..i : OpenedIn(lines, k, i) < 0

\* A loop line no later endloop closes: it stays open to the end of the
\* text.
IsUnclosedLoop(lines, i) ==
    /\ IsLoopLine(lines[i])
    /\ \A j \in i..Len(lines) : OpenedIn(lines, i, j) >= 1

\* C14: validate_loop_matching reports nothing for a text whose loops nest
\* and balance, one "endloop without matching loop" on the line of every
\* endloop met with no loop open, one "loop without matching endloop" on
\* the line of every loop still open at the end, and nothing else.
C14_LoopMatchingByStack ==
    fout.matched =>
        /\ Balanced(fin.text) => fout.loop_errors = <<>>
        /\ AllMessages(fout.loop_errors) \subseteq StructuralMessages
        /\ \A j \in 1..Len(fout.loop_errors) : fout.loop_errors[j].line_num \in 1..Len(fin.text)
        /\ \A i \in 1..Len(fin.text) :
              /\ Cardinality(EntriesAt(fout.loop_errors, i, {"endloop without matching loop"}))
                    = IF IsUnmatchedEndLoop(fin.text, i) THEN 1 ELSE 0
              /\ Cardinality(EntriesAt(fout.loop_errors, i, {"loop without matching endloop"}))
                    = IF IsUnclosedLoop(fin.text, i) THEN 1 ELSE 0

\* An endloop with nothing open, then a loop left open around a closed one.
C14_Witness ==
    /\ fout.matched
    /\ fin.text = <<EndLoop, Loop(2), Loop(3), MoveX(10), EndLoop>>
    /\ fout.loop_errors = <<ValidationError(1, "endloop without matching loop"),
                            ValidationError(2, "loop without matching endloop")>>

RECURSIVE TreeBlock(_, _)
JoinBlock(out, rest) == [out |-> out \o rest.out, next |-> rest.next]

LoopBlock(lines, n, inner) ==
    JoinBlock(Repeat(inner.out, n), TreeBlock(lines, inner.next + 1))

TreeBlock(lines, i) ==
    IF i > Len(lines) THEN [out |-> <<>>, next |-> i]
    ELSE IF lines[i] = <<>> \/ lines[i][1].k = "c" THEN TreeBlock(lines, i + 1)
    ELSE IF IsEndLoopLine(lines[i]) THEN [out |-> <<>>, next |-> i]
    ELSE IF IsLoopLine(lines[i])
    THEN LoopBlock(lines, lines[i][2].ip, TreeBlock(lines, i + 1))
    ELSE JoinBlock(<<lines[i]>>, TreeBlock(lines, i + 1))

\* C16: the expansion of a text validate_script accepts is the expansion of
\* its loop tree: every loop body n times in place, nested loops
\* multiplying, the commands outside loops once.
C16_ExpandsEveryLoopNTimes ==
    (fout.validated /\ fout.errors = <<>> /\ fout.converted >= 1) =>
        fout.cmds = TreeBlock(fin.text, 1).out

\* A flat text: primitive commands only, no loop, endloop, blank or comment
\* line.
IsFlat(lines) ==
    \A i \in 1..Len(lines) :
        /\ lines[i] # <<>>
        /\ FirstWord(lines[i]) \in {"move", "speed", "wait", "pulse", "zero", "report"}

\* C17: the expansion of a flat text is that text, and the expansion of an
\* expansion is the expansion itself.
C17_ExpandIsNoOpOnFlat ==
    /\ (fout.converted >= 1 /\ IsFlat(fin.text)) => fout.cmds = fin.text
    /\ fout.converted >= 1 => IsFlat(fout.cmds)
    /\ fout.converted = 2 => fout.again = fout.cmds

\* A text with nested loops that validate_script accepts, expanded to six
\* commands and expanded again.
C17_Witness ==
    /\ fout.validated
    /\ fout.errors = <<>>
    /\ fout.converted = 2
    /\ fin.text = <<Loop(2), Loop(3), Wait(1), EndLoop, EndLoop>>
    /\ fout.cmds = Repeat(<<Wait(1)>>, 6)
    /\ fout.again = fout.cmds

\* The non-empty lines of a device, in the order sent, and the number of
\* lines x among the first k of a sequence.
NonEmptyLines(said) == SelectSeq(said, LAMBDA line : line # "")

CountIn(lines, k, x) == Cardinality({i \in 1..k : lines[i] = x})

\* What the reader has done once it has handled the first n non-empty lines
\* the device sent, in their order: the counters count the accounting
\* lines among them and the sink got the n-th last.
HandledInOrder(lines, n) ==
    /\ n <= Len(lines)
    /\ sink.n = n
    /\ n > 0 => sink.last = lines[n]
    /\ queued_reports = CountIn(lines, n, "[queued]")
    /\ dequeued_reports = CountIn(lines, n, "[dequeued]")

\* C18: the reader handles every non-empty line the device sends exactly
\* once and in the order sent: "[queued]" adds one to the queued counter,
\* "[dequeued]" one to the dequeued counter, any other line changes no
\* counter; a counter changes only in a step of the reader, with the lock
\* that send_script uses free for it to take; every line reaches the sink.
C18_ReaderCountsAndForwardsEveryLine ==
    /\ [](HandledInOrder(NonEmptyLines(fin.said), sink.n))
    /\ [][(queued_reports' # queued_reports \/ dequeued_reports' # dequeued_reports) =>
            /\ queue_lock = "free"
            /\ queue_lock' = "free"
            /\ \E r \in 1..MaxReaders : rdr[r].pc = "line" /\ rdr'[r].pc = "poll"
            /\ sink'.n = sink.n + 1
         ]_vars
    /\ [](is_connected => <>(sink.n = Len(NonEmptyLines(fin.said))))

\* Four lines handled, the accounting lines counted, while the sender was
\* at work.
C18_Witness ==
    /\ fin.said = <<"[queued]", "READY", "[queued]", "[dequeued]">>
    /\ sink.n = 4
    /\ sink.last = "[dequeued]"
    /\ queued_reports = 2
    /\ dequeued_reports = 1
    /\ snd.pc = "wait"

\* disconnect() has returned on a session that was connected.
Disconnected == ctl.pc = "idle" /\ ctl.msg = "Disconnected"

\* C19: when disconnect() returns on a connected session, is_connected is
\* false, the handle has been closed and cleared and the reader has been
\* told to stop; the reader then terminates, and every later send_script,
\* send_command or emergency_stop returns "Not connected" and writes
\* nothing.
C19_DisconnectLeavesSessionDown ==
    /\ [][(ctl.pc = "d_clear" /\ ctl'.pc = "idle") => ser = "closed"]_vars
    /\ [](Disconnected => ~is_connected /\ ser = "None" /\ ~running)
    /\ [](Disconnected => <>(\A r \in 1..MaxReaders : rdr[r].pc \in {"none", "dead"}))
    /\ [][(Disconnected /\ snd.pc = "idle" /\ snd' # snd) =>
            /\ snd'.pc = "idle"
            /\ snd'.result = [ok |-> FALSE, msg |-> "Not connected", n |-> 0]
         ]_vars
    /\ [][(Disconnected /\ snd.pc = "send" /\ snd' # snd) =>
            /\ snd'.pc = "idle"
            /\ ~snd'.result.ok
            /\ snd'.result.msg = "Not connected"
         ]_vars
    /\ [][(Disconnected /\ est'.calls = est.calls + 1) =>
            ~est'.ok /\ est'.msg = "Not connected"
         ]_vars
    /\ [][Disconnected => wire' = wire /\ dev'.recv = dev.recv /\ dev'.stops = dev.stops]_vars

\* A session that was used and disconnected: the reader has ended, and a
\* send_script and an emergency_stop made afterwards were refused.
C19_Witness ==
    /\ Disconnected
    /\ dev.recv >= 1
    /\ rdr[read_thread].pc = "dead"
    /\ snd.pc = "idle"
    /\ snd.result.msg = "Not connected"
    /\ est.calls = 1
    /\ est.msg = "Not connected"
    /\ dev.stops = 0

\* The handshake succeeded on port n: the greeting was written and one of
\* the first read_attempts reads after it returned the reply.
HandshakeSucceeded(n) ==
    /\ cli.pinged
    /\ cli.ser = n
    /\ cli.attempts \in 1..read_attempts
    /\ ports[n].writes
    /\ ports[n].pong_at = cli.attempts

\* C20: a connection is reported as established only for a port on which
\* the handshake succeeded: by find_and_connect, and by connect of the
\* transport.
C20_EstablishedOnlyAfterHandshake ==
    /\ cli.result.ok => HandshakeSucceeded(cli.result.port)
    /\ is_connected => cli.result.ok /\ HandshakeSucceeded(cli.result.port)

\* The part of C20 that find_and_connect keeps.
FindReportsOnlyHandshakenPort ==
    cli.result.ok => HandshakeSucceeded(cli.result.port)

\* The rank of a port: vendor-string match, generic USB-serial, the rest.
Rank(p) == IF p.desc = "arduino" THEN 1 ELSE IF p.desc = "usb" THEN 2 ELSE 3

\* The port handshakes: it opens, takes the greeting and replies in time.
Handshakes(p) == p.opens /\ p.writes /\ p.pong_at \in 1..read_attempts

\* order holds every listed port once, the better ranks first.
IsRankOrder(order) ==
    /\ Len(order) = Len(ports)
    /\ \A n \in 1..Len(ports) : Cardinality({k \in 1..Len(order) : order[k] = n}) = 1
    /\ \A j, k \in 1..Len(order) :
           j < k => Rank(ports[order[j]]) <= Rank(ports[order[k]])

C22_StopChangesNoSessionState ==
    [][(est'.calls = est.calls + 1 /\ is_connected) =>
          /\ est'.msg \in {"Emergency stop sent", "Stop failed"}
          /\ UNCHANGED <<is_connected, ser, running, read_thread,
                         queued_reports, dequeued_reports>>
      ]_vars

\* An emergency_stop whose write failed, on a handle disconnect had just
\* closed, with the session still marked connected afterwards.
C22_Witness ==
    /\ est.calls = 1
    /\ est.msg = "Stop failed"
    /\ is_connected
    /\ ser = "closed"
    /\ dev.recv >= 1

\* The commands of CountedScript.
CountedCommands == [k \in 1..(window + 1) |-> Wait(k)]

\* send_script has returned (True, "Sent N commands") with the N commands
\* of CountedScript written in their order.
ReturnedSentCounted ==
    /\ snd.pc = "idle"
    /\ snd.result = [ok |-> TRUE, msg |-> "Sent", n |-> Len(CountedCommands)]
    /\ wire = CountedCommands

C24_NotConnectedCallsAreRefused ==
    /\ [][(~is_connected /\ snd.pc = "idle" /\ snd' # snd) =>
            /\ snd'.pc = "idle"
            /\ snd'.result = [ok |-> FALSE, msg |-> "Not connected", n |-> 0]
            /\ UNCHANGED <<wire, dev, ctrl_vars, count_vars, queue_lock>>
         ]_vars
    /\ [][(~is_connected /\ snd.pc = "send" /\ snd' # snd) =>
            /\ snd'.pc = "idle"
            /\ ~snd'.result.ok
            /\ snd'.result.msg = "Not connected"
            /\ snd'.sent = snd.sent
            /\ UNCHANGED <<wire, dev, ctrl_vars, count_vars>>
         ]_vars
    /\ [][(~is_connected /\ est'.calls = est.calls + 1) =>
            /\ ~est'.ok
            /\ est'.msg = "Not connected"
            /\ UNCHANGED <<wire, dev, ctrl_vars, count_vars, queue_lock, snd>>
         ]_vars

\* A send_command refused for the second line of a script after a
\* disconnect, and an emergency_stop refused as well.
C24_Witness ==
    /\ ~is_connected
    /\ snd.pc = "idle"
    /\ snd.result = [ok |-> FALSE, msg |-> "Not connected", n |-> 1]
    /\ Len(wire) = 1
    /\ est.calls = 1
    /\ est.msg = "Not connected"
    /\ dev.stops = 0

\* The lines of a script from line i on that are neither blank nor
\* comments, in their order.
RECURSIVE CommandsFrom(_, _)
CommandsFrom(lines, i) ==
    IF i > Len(lines) THEN <<>>
    ELSE IF lines[i] = <<>> \/ lines[i][1].k = "c" THEN CommandsFrom(lines, i + 1)
    ELSE <<lines[i]>> \o CommandsFrom(lines, i + 1)

\* C25: send_script writes exactly the non-blank, non-comment lines of its
\* input, each once and in input order, one send_command per line; blank
\* lines and comments are never written and not counted in the total.
C25_WritesExactlyTheCommands ==
    /\ [](/\ Len(wire) <= Len(CommandsFrom(CountedScript, 1))
          /\ wire = SubSeq(CommandsFrom(CountedScript, 1), 1, Len(wire))
          /\ dev.recv = Len(wire)
          /\ \A k \in 1..Len(wire) : wire[k] # <<>> /\ wire[k][1].k # "c")
    /\ [][Len(wire') <= Len(wire) + 1 /\ dev'.recv <= dev.recv + 1]_vars
    /\ [](snd.pc = "idle" /\ snd.result.msg = "Sent" =>
            /\ wire = CommandsFrom(CountedScript, 1)
            /\ snd.result.ok
            /\ snd.result.n = Len(CommandsFrom(CountedScript, 1))
            /\ snd.result.n < Len(CountedScript))

\* The send of CountedScript has returned with its 33 commands written,
\* the two blank lines and the comment left out.
C25_Witness ==
    /\ snd.pc = "idle"
    /\ snd.result = [ok |-> TRUE, msg |-> "Sent", n |-> window + 1]
    /\ Len(wire) = Len(CountedScript) - 3
    /\ wire[1] = Wait(1)
    /\ wire[2] = Wait(2)
    /\ dev.recv = window + 1

\* The entries of the per-line pass on line i of the text validated.
PerLineEntries(i) ==
    EntriesAt(fout.errors, i,
              AllMessages(fout.errors) \ (StructuralMessages \cup SoftLimitMessages))

\* C26: the per-line pass reports nothing for a line that is blank, a
\* comment or a command that keeps its rule (move and speed with an axis
\* x or z, a distance of at most one fractional digit, a speed above 0;
\* wait from 0 up; pulse from 0 to 5000; loop from 1 up; endloop alone;
\* zero z), and one error with the line's number for every other line,
\* whenever validate_script returns its list.
C26_PerLineGrammar ==
    (fout.validated /\ fout.raised = {}) =>
        \A i \in 1..Len(fin.text) :
            Cardinality(PerLineEntries(i)) = IF WellFormed(fin.text[i]) THEN 0 ELSE 1

\* The primitive commands.
Primitives == {"move", "speed", "wait", "pulse", "zero", "report"}

\* C27: loop expansion never raises: for any line sequence, malformed loop
\* lines included, it returns a flat list that holds primitive commands
\* only and never a loop or endloop line.
C27_ExpansionNeverRaises ==
    fout.converted >= 1 =>
        /\ "convert_to_arduino_commands" \notin fout.raised
        /\ \A k \in 1..Len(fout.cmds) :
               fout.cmds[k] # <<>> /\ FirstWord(fout.cmds[k]) \in Primitives

\* The line "report z".
ReportZ == <<W("report"), W("z")>>

\* C28: "report z" is a valid script command: validate_script reports no
\* error for a text that holds nothing else, and the expansion passes the
\* line through unchanged.
C28_ReportIsAValidCommand ==
    (\E i \in 1..Len(fin.text) :
        /\ fin.text[i] = ReportZ
        /\ \A j \in 1..Len(fin.text) : j # i => fin.text[j] = Blank) =>
        /\ fout.validated => fout.errors = <<>>
        /\ fout.converted >= 1 => fout.cmds = <<ReportZ>>

\* C29: send_script tests the window before every write: a command is
\* written only by a sender that holds the counters' lock, has just tested
\* the window, and sees fewer than 32 reports outstanding at the moment of
\* the write; while it holds the lock the reader changes no counter.
C29_WindowTestedBeforeEveryWrite ==
    [][/\ (snd'.sent = snd.sent + 1 \/ dev'.recv = dev.recv + 1) =>
            /\ snd.pc = "send"
            /\ queue_lock = "sender"
            /\ WindowOpen(queued_reports - dequeued_reports)
            /\ snd.outstanding = queued_reports - dequeued_reports
       /\ (snd'.pc = "send" /\ snd.pc # "send") =>
            /\ snd.pc = "locked"
            /\ queue_lock = "sender"
            /\ WindowOpen(queued_reports - dequeued_reports)
       /\ queue_lock = "sender" => UNCHANGED <<queued_reports, dequeued_reports>>
      ]_vars

\* The command behind the window has been written after a wait on a full
\* window, and the sender is about to write the next one while the reader
\* holds an accounting line it cannot count yet.
C29_Witness ==
    /\ snd.pc = "send"
    /\ queue_lock = "sender"
    /\ snd.idx = window
    /\ queued_reports - dequeued_reports = window - 1
    /\ dequeued_reports >= 1
    /\ \E r \in 1..MaxReaders : rdr[r].pc = "line" /\ rdr[r].line = "[dequeued]"

\* a <= b on doubles.
FLe(a, b) == a = b \/ FGt(b, a)

C31_RejectionKeepsStateAndStops ==
    (fout.done /\ ~fout.ok) =>
        LET start == FloatOfTenths(fin.z0t)
            upto  == check_z_soft_limit(SubSeq(fin.cmds, 1, fout.idx), start)
        IN  /\ fout.z_position = start
            /\ fout.idx \in 1..Len(fin.cmds)
            /\ IsMoveZ(fin.cmds[fout.idx])
            /\ check_z_soft_limit(SubSeq(fin.cmds, 1, fout.idx - 1), start).ok
            /\ ~upto.ok /\ upto.idx = fout.idx /\ upto.to = fout.to
            /\ FGt(fout.to, Z_BUFFER)

\* [zero z, move z 1.0, move z 1.5] from -50.0: a zero z and a move are
\* accepted, the third command is rejected, and the state is still -50.0.
C31_Witness ==
    /\ fout.done
    /\ fin.z0t = -500
    /\ fin.cmds = <<ZeroZ, MoveZ(10), MoveZ(15)>>
    /\ ~fout.ok
    /\ fout.idx = 3
    /\ fout.z_position = FloatOfTenths(-500)

\* C32: when the gate has accepted a script and send_script then returns a
\* failure, the persisted axis state is the one from before that attempt.
C32_FailedSendKeepsState ==
    (app.outcome = "send_script" /\ snd.pc = "idle" /\ ~snd.result.ok) =>
        z_position = app.z_before

\* The endloop validate_loop_matching pairs with the loop on line i: the
\* first endloop behind it with as many loops as endloops in between.
MatchedEndLoop(lines, i) ==
    CHOOSE j \in (i + 1)..Len(lines) :
        /\ IsEndLoopLine(lines[j])
        /\ OpenedIn(lines, i + 1, j - 1) = 0
        /\ \A m \in (i + 1)..(j - 1) :
              IsEndLoopLine(lines[m]) => OpenedIn(lines, i + 1, m - 1) # 0

\* The text with the loop on line i written out: the lines between it and
\* its endloop n times in place of the frame.
Unrolled(lines, i, n) ==
    SubSeq(lines, 1, i - 1)
    \o Repeat(SubSeq(lines, i + 1, MatchedEndLoop(lines, i) - 1), n)
    \o SubSeq(lines, MatchedEndLoop(lines, i) + 1, Len(lines))

\* C33: in a text validate_script accepts, every loop line, whatever the
\* spelling of its count n, is a frame for the expander that ends at the
\* endloop the validator matched with it and stands for its body n times:
\* the expansion of the text is the expansion of the text with that frame
\* written out.
C33_ExpanderOpensEveryAcceptedLoop ==
    (fout.validated /\ fout.errors = <<>> /\ fout.raised = {} /\ fout.converted >= 1) =>
        \A i \in 1..Len(fin.text) :
            IsLoopLine(fin.text[i]) =>
                fout.cmds = convert_to_arduino_commands(
                                Unrolled(fin.text, i, IntOf(fin.text[i][2])))

\* The reader threads that have been started and have not ended.
ActiveReaders == {r \in 1..MaxReaders : rdr[r].pc \in {"poll", "line"}}

\* C34: over any sequence of connect and disconnect calls at most one
\* reader thread is active at a time, also when the join of disconnect has
\* returned before the reader ended and connect is called again; and a
\* connect on a connected session returns (True, "Already connected"),
\* opens no handle and starts no reader.
C34_AtMostOneActiveReader ==
    /\ [](Cardinality(ActiveReaders) <= 1)
    /\ [][(ctl.pc = "idle" /\ is_connected /\ ctl' # ctl /\ ctl'.pc = "idle") =>
            /\ ctl'.ok /\ ctl'.msg = "Already connected"
            /\ ctl'.connects = ctl.connects
            /\ ser' = ser /\ rdr' = rdr /\ read_thread' = read_thread
            /\ is_connected' /\ running' = running
         ]_vars

\* C35: every connection starts with an empty window: when a connect that
\* follows a disconnect has returned and no command has been sent yet, the
\* counted reports and the counted dequeues are equal, whatever the
\* session before left behind.
C35_ConnectionStartsWithEmptyWindow ==
    (/\ ctl.pc = "idle" /\ ctl.ok /\ ctl.msg = "Connected"
     /\ dev.recv = 0
     /\ ActiveReaders = {read_thread}) =>
        queued_reports - dequeued_reports = 0

\* C36: for a text without a per-line or loop-matching error,
\* validate_script reports at least one soft-limit error exactly when
\* _check_z_soft_limit rejects the expansion of the text from the persisted
\* position 0.
C36_ValidatorPassAgreesWithGateAtZero ==
    (/\ fout.validated /\ fout.converted >= 1 /\ fout.raised = {}
     /\ AllMessages(fout.errors) \subseteq SoftLimitMessages) =>
        (fout.errors # <<>> <=> ~check_z_soft_limit(fout.cmds, FloatOfTenths(0)).ok)

\* [move z 10.0, move z -1.0, move z 1.5]: the validator reports line 1,
\* does not commit it and accepts the two moves behind it; the gate stops
\* at command 1.
C36_Witness ==
    /\ fout.validated
    /\ fout.converted >= 1
    /\ fin.text = <<MoveZ(100), MoveZ(-10), MoveZ(15)>>
    /\ fout.errors = <<ValidationError(1, "Z soft-limit violation")>>
    /\ fout.cmds = fin.text
    /\ check_z_soft_limit(fout.cmds, FloatOfTenths(0)).idx = 1

=============================================================================
